---- MODULE Spec2Model ----
(***************************************************************************)
(* Model of the ABetterTerp Workouts page (src/ABetterTerp/src/pages/      *)
(* Workouts.tsx): the progressive-overload suggestion function             *)
(* getSuggestion, and the page state (exercise library, stored sessions,   *)
(* active workout) from which the page builds the history passed to it.    *)
(*                                                                         *)
(* Strings: the source's advisory messages contain an em dash (U+2014) and *)
(* an en dash (U+2013); they are written here as "--" and "-", everything  *)
(* else is verbatim.                                                       *)
(*                                                                         *)
(* Optional fields of a WorkoutSet (weight?, reps?, ...) are modelled by   *)
(* the record's domain: an absent field is absent from DOMAIN s.           *)
(***************************************************************************)
EXTENDS Integers, Sequences, FiniteSets

VARIABLES
  exercises,    \* useState<Exercise[]>: the exercise library, in list order
  overrides,    \* useState<ExerciseOverride[]>: edits and deletions of defaults
  localStorage, \* window.localStorage: for each key the text stored, or NoItem
  storageThrows, \* do localStorage.setItem and removeItem throw
  historyMemo,  \* useMemo: the Map historySetsByExercise of the last render
  dialog,       \* what window.confirm returned in the last handler, if called
  sessions,     \* useState<WorkoutSession[]>: stored sessions, in list order
  active,       \* useState<WorkoutSession | null>: <<>> is null, <<s>> is s
  tab,          \* useState<'library' | 'active' | 'history'>
  workoutName,  \* useState<string>: the name input
  workoutDate,  \* useState<string>: the date input, as a day number
  nextUid,      \* the next value uid() returns (uid() values are all distinct)
  sgExercise,   \* getSuggestion's argument exercise
  sgHistory,    \* getSuggestion's argument historySets
  sgHint,       \* the value getSuggestion returned, NotCalled before the call
  calls,        \* for each call site, the evaluation of getSuggestion under way
  loaded,       \* what loadSessions, loadActive and loadOverrides returned
  username,     \* useState<string | null> of both pages: <<>> is null
  assignments,  \* Assignments: useState<Assignment[]>, in list order
  loading,      \* Assignments: useState(true), false once loadData settled
  requests,     \* Assignments: the calls of the three mutating handlers
  nextId,       \* Assignments: the _id the backend gives the next assignment
  isSetup,      \* WaterIntake: useState(false)
  bottleName,   \* WaterIntake: useState(''), the text input
  bottleOz,     \* WaterIntake: useState(''), the number input's text
  dailyGoal,    \* WaterIntake: useState(''), the number input's text
  currentOz,    \* WaterIntake: useState(0)
  showConfetti, \* WaterIntake: useState(false)
  hasReachedGoal, \* WaterIntake: useState(false)
  timers,       \* WaterIntake: the setTimeout callbacks of addOz not yet run
  waterFetch    \* WaterIntake: the load effect's GET: "pending" or "settled"

vars == <<exercises, overrides, localStorage, storageThrows, historyMemo,
          dialog, sessions,
          active, tab, workoutName, workoutDate, nextUid,
          sgExercise, sgHistory, sgHint, calls, loaded,
          username, assignments, loading, requests, nextId,
          isSetup, bottleName, bottleOz, dailyGoal, currentOz, showConfetti,
          hasReachedGoal, timers, waterFetch>>

pageVars ==
  <<exercises, overrides, localStorage, storageThrows, historyMemo, dialog,
    sessions, active,
    tab, workoutName, workoutDate, nextUid>>
sgVars == <<sgExercise, sgHistory, sgHint, calls, loaded>>
assignmentsVars == <<assignments, loading, requests, nextId>>
waterVars ==
  <<isSetup, bottleName, bottleOz, dailyGoal, currentOz, showConfetti,
    hasReachedGoal, timers, waterFetch>>
\* the state of the two other pages, which no Workouts handler touches
otherPages == <<username, assignmentsVars, waterVars>>

(***************************************************************************)
(* Bounds                                                                  *)
(***************************************************************************)
MaxHist == 2        \* longest history list handed to getSuggestion
MaxUid == 5         \* uid() is called at most MaxUid times
MaxSets == 3        \* addSet is used on items of fewer than MaxSets sets
MaxDay == 2         \* the date input takes the days 1..MaxDay
MaxAssignments == 2 \* the backend holds at most MaxAssignments at loadData
MaxRequests == 2    \* the mutating handlers are called MaxRequests times
MaxGoal == 2        \* the goal typed or saved is at most MaxGoal oz
MaxOz == 3          \* addOz is used while currentOz is below MaxOz
MaxBottle == 1      \* the bottle size typed or saved is at most MaxBottle oz
MaxTimers == 2      \* at most MaxTimers confetti timeouts are pending

(***************************************************************************)
(* Defaults                                                                *)
(***************************************************************************)
Ex(id, name, muscle, equipment, compound, category) ==
  [id |-> id, name |-> name, muscle |-> muscle, equipment |-> equipment,
   compound |-> compound, category |-> category, createdByUser |-> FALSE]

DEFAULT_STRENGTH == <<
  Ex("bench", "Barbell Bench Press", "Chest", "Barbell", TRUE, "Strength"),
  Ex("squat", "Back Squat", "Legs", "Barbell", TRUE, "Strength"),
  Ex("deadlift", "Deadlift", "Legs", "Barbell", TRUE, "Strength"),
  Ex("ohp", "Overhead Press", "Shoulders", "Barbell", TRUE, "Strength"),
  Ex("row", "Barbell Row", "Back", "Barbell", TRUE, "Strength"),
  Ex("pullup", "Pull-Ups", "Back", "Bodyweight", TRUE, "Strength"),
  Ex("latpull", "Lat Pulldown", "Back", "Cable", FALSE, "Strength"),
  Ex("legpress", "Leg Press", "Legs", "Machine", TRUE, "Strength"),
  Ex("curl", "Dumbbell Curl", "Arms", "Dumbbell", FALSE, "Strength"),
  Ex("tricep", "Triceps Pushdown", "Arms", "Cable", FALSE, "Strength"),
  Ex("lateral", "Lateral Raises", "Shoulders", "Dumbbell", FALSE, "Strength") >>

DEFAULT_CARDIO == <<
  Ex("tread", "Treadmill Run", "Cardio", "Treadmill", FALSE, "Cardio"),
  Ex("bike", "Stationary Bike", "Cardio", "Bike", FALSE, "Cardio"),
  Ex("rower", "Rowing Machine", "Cardio", "Rower", FALSE, "Cardio"),
  Ex("elliptical", "Elliptical", "Cardio", "Elliptical", FALSE, "Cardio"),
  Ex("stairs", "Stair Climber", "Cardio", "Machine", FALSE, "Cardio"),
  Ex("jumprope", "Jump Rope", "Cardio", "Bodyweight", FALSE, "Cardio") >>

DEFAULT_EXERCISES == DEFAULT_STRENGTH \o DEFAULT_CARDIO

(***************************************************************************)
(* Field access with the source's defaults                                 *)
(***************************************************************************)
\* s.f ?? 0
Num(s, f) == IF f \in DOMAIN s THEN s[f] ELSE 0

\* mutant of Warm: tested as s.isWarmup !== false, so that a set without the
\* flag counts as a warm-up
Warm_unlessFalse(s) == IF "isWarmup" \in DOMAIN s THEN s.isWarmup ELSE TRUE

\* the truthiness of s.isWarmup (undefined is falsy)
Warm(s) == IF "isWarmup" \in DOMAIN s THEN s.isWarmup ELSE FALSE

(***************************************************************************)
(* Recommendation logic                                                    *)
(***************************************************************************)
isCardio(ex) == ex.category = "Cardio"

\* mutant of isBodyweightStrength: the equipment is not looked at
isBodyweightStrength_anyEquipment(ex) == ex.category = "Strength"

isBodyweightStrength(ex) ==
  ex.category = "Strength" /\ ex.equipment = "Bodyweight"

\* mutant of cardioSuggestion: the emptiness test looks at the sets that are
\* not warm-ups instead of at the list
cardioSuggestion_skipWarmups(historySets) ==
  IF \A i \in 1..Len(historySets) : Warm(historySets[i])
  THEN "No history yet -- start easy and build consistency."
  ELSE "Next time: +2-5 minutes or a slight pace/incline increase."

\* the cardio branch (the body of `if (isCardio(exercise))`)
cardioSuggestion(historySets) ==
  IF Len(historySets) = 0
  THEN "No history yet -- start easy and build consistency."
  ELSE "Next time: +2-5 minutes or a slight pace/incline increase."

\* mutant of isWorkingSet: a loaded set needs reps only, as a bodyweight set
isWorkingSet_anyWeight(bodyweight, s) ==
  IF Warm(s) THEN FALSE
  ELSE Num(s, "reps") > 0

\* mutant of isWorkingSet: warm-up sets are not excluded
isWorkingSet_keepWarmups(bodyweight, s) ==
  LET reps == Num(s, "reps")
      weight == Num(s, "weight")
  IN IF bodyweight THEN reps > 0
     ELSE weight > 0 /\ reps > 0

\* mutant of isWorkingSet: reps are compared with >= 0
isWorkingSet_zeroReps(bodyweight, s) ==
  IF Warm(s) THEN FALSE
  ELSE LET reps == Num(s, "reps")
           weight == Num(s, "weight")
       IN IF bodyweight THEN reps >= 0
          ELSE weight > 0 /\ reps >= 0

\* the callback of historySets.filter: is s a working set
isWorkingSet(bodyweight, s) ==
  IF Warm(s) THEN FALSE
  ELSE LET reps == Num(s, "reps")
           weight == Num(s, "weight")
       IN IF bodyweight THEN reps > 0
          ELSE weight > 0 /\ reps > 0

\* const work = historySets.filter(...)
work(bodyweight, historySets) ==
  LET Keep(s) == isWorkingSet(bodyweight, s)
  IN SelectSeq(historySets, Keep)

\* mutant of addedWeightSuggestion: the sweet spot starts above 8 reps
addedWeightSuggestion_above8(reps) ==
  IF reps > 8 /\ reps <= 12
    THEN "Nice weighted set -- consider +2.5-5 lbs next time."
  ELSE IF reps > 12
    THEN "You may be ready to add a bit more weight."
  ELSE IF reps >= 5
    THEN "Try adding 1-2 reps before increasing weight again."
  ELSE "Hold this load and tighten technique."

\* bodyweight, load > 0
addedWeightSuggestion(reps) ==
  IF reps >= 8 /\ reps <= 12
    THEN "Nice weighted set -- consider +2.5-5 lbs next time."
  ELSE IF reps > 12
    THEN "You may be ready to add a bit more weight."
  ELSE IF reps >= 5
    THEN "Try adding 1-2 reps before increasing weight again."
  ELSE "Hold this load and tighten technique."

\* mutant of assistedSuggestion: the thresholds of the unweighted case
assistedSuggestion_from12(reps) ==
  IF reps >= 12
    THEN "You can likely reduce assistance a bit."
  ELSE IF reps >= 8
    THEN "Good assisted range -- try reducing assistance by 5-10 lbs next time."
  ELSE IF reps >= 5
    THEN "Stay here and aim for cleaner reps before reducing assistance."
  ELSE "Keep assistance for now and focus on controlled tempo."

\* bodyweight, load < 0
assistedSuggestion(reps) ==
  IF reps >= 8 /\ reps <= 12
    THEN "Good assisted range -- try reducing assistance by 5-10 lbs next time."
  ELSE IF reps > 12
    THEN "You can likely reduce assistance a bit."
  ELSE IF reps >= 5
    THEN "Stay here and aim for cleaner reps before reducing assistance."
  ELSE "Keep assistance for now and focus on controlled tempo."

\* mutant of unweightedSuggestion: the thresholds of the weighted cases
unweightedSuggestion_above12(reps) ==
  IF reps > 12
    THEN "Great control -- consider a harder variation or add light weight if available."
  ELSE IF reps >= 8
    THEN "Try adding 1-2 reps next time if form stays clean."
  ELSE IF reps >= 5
    THEN "Stick here and aim for smoother reps and full range of motion."
  ELSE "Repeat this and focus on strict form and controlled tempo."

\* bodyweight, load = 0
unweightedSuggestion(reps) ==
  IF reps >= 12
    THEN "Great control -- consider a harder variation or add light weight if available."
  ELSE IF reps >= 8
    THEN "Try adding 1-2 reps next time if form stays clean."
  ELSE IF reps >= 5
    THEN "Stick here and aim for smoother reps and full range of motion."
  ELSE "Repeat this and focus on strict form and controlled tempo."

isUpper(exercise) == exercise.muscle \in {"Chest", "Shoulders", "Arms"}

\* mutant of inc: the muscle is tested before the equipment
inc_muscleFirst(exercise) ==
  IF isUpper(exercise) THEN 50
  ELSE IF exercise.equipment = "Dumbbell" THEN 25 ELSE 100

\* the increment in tenths of a pound: 25 is the source's 2.5, 50 its 5,
\* 100 its 10
inc(exercise) ==
  IF exercise.equipment = "Dumbbell" THEN 25
  ELSE IF isUpper(exercise) THEN 50 ELSE 100

\* mutant of loadedSuggestion: the +5 lbs case has no upper limit on reps
loadedSuggestion_noUpperLimit(exercise, reps) ==
  IF inc(exercise) = 50 /\ reps >= 8
    THEN "Try +5 lbs next time if form was solid."
  ELSE IF reps >= 8 /\ reps <= 12
    THEN "Solid range -- consider a small increase next time if form was clean."
  ELSE IF reps > 12
    THEN "You may be ready for a small weight increase next time."
  ELSE IF reps >= 5
    THEN "Try adding 1 rep per set before increasing weight."
  ELSE "Repeat this weight and aim for tighter technique."

\* mutant of loadedSuggestion: the last return is missing, so that fewer than
\* 5 reps give the function's implicit result
loadedSuggestion_noFinalReturn(exercise, reps) ==
  IF inc(exercise) = 50 /\ reps >= 8 /\ reps <= 12
    THEN "Try +5 lbs next time if form was solid."
  ELSE IF reps >= 8 /\ reps <= 12
    THEN "Solid range -- consider a small increase next time if form was clean."
  ELSE IF reps > 12
    THEN "You may be ready for a small weight increase next time."
  ELSE IF reps >= 5
    THEN "Try adding 1 rep per set before increasing weight."
  ELSE "undefined"

\* mutant of loadedSuggestion: the sweet spot ends below 12 reps
loadedSuggestion_below12(exercise, reps) ==
  IF inc(exercise) = 50 /\ reps >= 8 /\ reps < 12
    THEN "Try +5 lbs next time if form was solid."
  ELSE IF reps >= 8 /\ reps < 12
    THEN "Solid range -- consider a small increase next time if form was clean."
  ELSE IF reps >= 12
    THEN "You may be ready for a small weight increase next time."
  ELSE IF reps >= 5
    THEN "Try adding 1 rep per set before increasing weight."
  ELSE "Repeat this weight and aim for tighter technique."

\* mutant of loadedSuggestion: the increment 10 is treated as the increment 5
loadedSuggestion_tenAsFive(exercise, reps) ==
  IF inc(exercise) \in {50, 100} /\ reps >= 8 /\ reps <= 12
    THEN "Try +5 lbs next time if form was solid."
  ELSE IF reps >= 8 /\ reps <= 12
    THEN "Solid range -- consider a small increase next time if form was clean."
  ELSE IF reps > 12
    THEN "You may be ready for a small weight increase next time."
  ELSE IF reps >= 5
    THEN "Try adding 1 rep per set before increasing weight."
  ELSE "Repeat this weight and aim for tighter technique."

\* the loaded branch (non-bodyweight strength)
loadedSuggestion(exercise, reps) ==
  IF inc(exercise) = 50 /\ reps >= 8 /\ reps <= 12
    THEN "Try +5 lbs next time if form was solid."
  ELSE IF reps >= 8 /\ reps <= 12
    THEN "Solid range -- consider a small increase next time if form was clean."
  ELSE IF reps > 12
    THEN "You may be ready for a small weight increase next time."
  ELSE IF reps >= 5
    THEN "Try adding 1 rep per set before increasing weight."
  ELSE "Repeat this weight and aim for tighter technique."

\* mutant of lastWork: the first working set instead of the last
lastWork_first(bodyweight, historySets) ==
  work(bodyweight, historySets)[1]

\* const last = work[work.length - 1], for a work list that is not empty
lastWork(bodyweight, historySets) ==
  LET w == work(bodyweight, historySets) IN w[Len(w)]

getSuggestion(exercise, historySets) ==
  IF isCardio(exercise) THEN cardioSuggestion(historySets)
  ELSE
  LET bodyweight == isBodyweightStrength(exercise)
      w == work(bodyweight, historySets)
  IN
  IF Len(w) = 0
  THEN "No history yet -- start comfortable and focus on clean form."
  ELSE
  LET last == lastWork(bodyweight, historySets)
      reps == Num(last, "reps")
      load == Num(last, "weight")
  IN
  IF bodyweight
  THEN IF load > 0 THEN addedWeightSuggestion(reps)
       ELSE IF load < 0 THEN assistedSuggestion(reps)
       ELSE unweightedSuggestion(reps)
  ELSE loadedSuggestion(exercise, reps)

NotCalled == "(not called)"

\* no evaluation of getSuggestion is under way
NoCalls == <<>>

\* nothing was saved or loaded yet: the keys a save was called for, the keys
\* whose setItem or removeItem did not throw, the keys loaded, and what the
\* loads returned
NothingLoaded ==
  [saved |-> {}, written |-> {}, read |-> {},
   sessions |-> <<>>, active |-> <<>>, overrides |-> <<>>]

(***************************************************************************)
(* Dates.  The date input holds a day; dateInputToISO gives the instant of *)
(* midday of that day, counted here in hours, and getTime reads an ISO     *)
(* string back as an instant.  The empty and the invalid date string are   *)
(* not among the inputs drawn.                                             *)
(***************************************************************************)
dateInputToISO(dateStr) == dateStr * 24 + 12

getTime(dateISO) == dateISO

(***************************************************************************)
(* sortByNewest: Array.prototype.sort is stable, so sessions of equal date *)
(* keep their relative order.                                              *)
(***************************************************************************)
\* mutant of InsertByNewest: x is placed first
InsertByNewest_first(x, sorted) == <<x>> \o sorted

\* x placed after the elements of the sorted list that do not come after it
InsertByNewest(x, sorted) ==
  LET before == { i \in 1..Len(sorted) :
                    getTime(sorted[i].dateISO) >= getTime(x.dateISO) }
      k == Cardinality(before)
  IN SubSeq(sorted, 1, k) \o <<x>> \o SubSeq(sorted, k + 1, Len(sorted))

RECURSIVE sortByNewest(_)
sortByNewest(arr) ==
  IF arr = <<>> THEN <<>>
  ELSE InsertByNewest(arr[Len(arr)], sortByNewest(SubSeq(arr, 1, Len(arr) - 1)))

(***************************************************************************)
(* The history of an exercise, as the page builds it                       *)
(***************************************************************************)
RECURSIVE Flatten(_)
Flatten(seqs) ==
  IF seqs = <<>> THEN <<>> ELSE Head(seqs) \o Flatten(Tail(seqs))

\* the sets of the items of session ses that refer to exerciseId
SetsInSession(ses, exerciseId) ==
  LET IsOf(item) == item.exerciseId = exerciseId
      items == SelectSeq(ses.items, IsOf)
  IN Flatten([i \in 1..Len(items) |-> items[i].sets])

\* the Map the callback of useMemo builds from the sessions sess: an entry
\* for each exercise id that has a set, the sets in the order of the sessions
historyMap(sess) ==
  LET ids == UNION { { sess[k].items[j].exerciseId :
                         j \in { n \in 1..Len(sess[k].items) :
                                   sess[k].items[n].sets # <<>> } } :
                     k \in 1..Len(sess) }
  IN [id \in ids |->
        Flatten([k \in 1..Len(sess) |-> SetsInSession(sess[k], id)])]

\* historySetsByExercise.get(exerciseId) || []
historySetsByExercise(exerciseId) ==
  IF exerciseId \in DOMAIN historyMemo THEN historyMemo[exerciseId] ELSE <<>>

\* mutant of depsChanged: the Map is rebuilt when a session was added
depsChanged_onGrowth == Len(sessions') > Len(sessions)

\* the dependency list [sessions] of the useMemo changed in this render
depsChanged == sessions' # sessions

\* the render that follows a handler: the Map is rebuilt when the sessions
\* changed and is the one of the last render otherwise
Memo ==
  historyMemo' = IF depsChanged THEN historyMap(sessions') ELSE historyMemo

\* the handler did not call window.confirm
NoDialog == dialog' = "none"

getExerciseById(id) ==
  IF \E i \in 1..Len(exercises) : exercises[i].id = id
  THEN exercises[CHOOSE i \in 1..Len(exercises) :
                   /\ exercises[i].id = id
                   /\ \A j \in 1..(i - 1) : exercises[j].id # id]
  ELSE [id |-> id, name |-> "Unknown", muscle |-> "Other",
        equipment |-> "Other", compound |-> FALSE, category |-> "Strength"]

\* the hint of the library card of exercise ex
libraryHint(ex) == getSuggestion(ex, historySetsByExercise(ex.id))

\* the hint of the active-workout card of item
activeHint(item) ==
  LET ex == getExerciseById(item.exerciseId)
  IN getSuggestion(ex, historySetsByExercise(ex.id))

(***************************************************************************)
(* JSON.  A JSON text is modelled by its syntax tree: a scalar (number,    *)
(* string or boolean literal), an object (its members, key and text, in    *)
(* the order written) or an array (the texts of its elements).  An absent  *)
(* field has no member, as JSON.stringify skips undefined.                 *)
(***************************************************************************)
\* the keys of an object the page stores, in the order JSON.stringify
\* writes them, which is the order the object literal that built it lists
\* them: a spread ({ ...s, ...patch }) keeps the place of a key it has and
\* appends a key that is new
KeyOrder(r) ==
  LET Has(k) == k \in DOMAIN r
  IN IF Has("exerciseId") THEN << "exerciseId", "sets" >>
     ELSE IF Has("dateISO") \/ Has("items")
     THEN << "id", "dateISO", "name", "items" >>
     ELSE IF Has("createdByUser")
     THEN << "id", "name", "muscle", "equipment", "compound", "category",
             "createdByUser" >>
     ELSE IF Has("deleted") \/ Has("category")
     THEN << "id", "name", "category", "muscle", "equipment", "compound",
             "deleted" >>
     ELSE IF Has("durationMin") /\ Has("distanceMi") /\ Has("calories")
             /\ Has("rpe")
     THEN \* a set of makeCardioSet, the keys of a strength patch appended
          << "id", "durationMin", "distanceMi", "calories", "rpe",
             "isWarmup", "weight", "reps" >>
     ELSE \* a set of makeStrengthSet, the keys of a cardio patch appended
          << "id", "weight", "reps", "isWarmup", "durationMin", "distanceMi",
             "calories", "rpe" >>

\* the fields that hold arrays of objects
ArrayFields == {"items", "sets"}

RECURSIVE JSON_stringify(_)
\* JSON.stringify of an array of objects
JSON_stringify(arr) ==
  LET ObjectText(r) ==
        LET Present(k) == k \in DOMAIN r
            keys == SelectSeq(KeyOrder(r), Present)
        IN [json |-> "object",
            members |->
              [i \in 1..Len(keys) |->
                 << keys[i],
                    IF keys[i] \in ArrayFields
                    THEN JSON_stringify(r[keys[i]])
                    ELSE [json |-> "scalar", value |-> r[keys[i]]] >>]]
  IN [json |-> "array",
      elements |-> [i \in 1..Len(arr) |-> ObjectText(arr[i])]]

RECURSIVE JSON_parse(_)
\* JSON.parse of the text of an array of objects
JSON_parse(text) ==
  LET ObjectOf(t) ==
        LET m == t.members
        IN [k \in { m[i][1] : i \in 1..Len(m) } |->
              LET i == CHOOSE j \in 1..Len(m) : m[j][1] = k
              IN IF m[i][2].json = "array" THEN JSON_parse(m[i][2])
                 ELSE m[i][2].value]
  IN [i \in 1..Len(text.elements) |-> ObjectOf(text.elements[i])]

(***************************************************************************)
(* Storage                                                                 *)
(***************************************************************************)
SESSIONS_KEY == "umd_workouts_v1"
EXERCISES_KEY == "umd_exercises_v1"
ACTIVE_KEY == "umd_active_workout_v1"
OVERRIDES_KEY == "umd_exercise_overrides_v1"

StorageKeys == {SESSIONS_KEY, EXERCISES_KEY, ACTIVE_KEY, OVERRIDES_KEY}

\* what localStorage.getItem returns for a key that is not stored (null)
NoItem == [json |-> "none"]

\* the storage of a browser that never ran the page
EmptyStorage == [k \in StorageKeys |-> NoItem]

\* safeParse(raw, []) for the keys that hold an array: the stored texts are
\* the texts the page wrote, which all parse
safeParse(raw) ==
  IF raw = NoItem THEN <<>> ELSE JSON_parse(raw)

\* mutant of loadSessions: the list is read back in reverse order
loadSessions_reversed(ls) ==
  LET parsed == safeParse(ls[SESSIONS_KEY])
  IN [i \in 1..Len(parsed) |-> parsed[Len(parsed) + 1 - i]]

\* parsed.filter(Boolean): the elements are objects, which are truthy
loadSessions(ls) == safeParse(ls[SESSIONS_KEY])

\* throws: setItem throws and the catch leaves the storage as it was
saveSessions(ls, sess, throws) ==
  IF throws THEN ls ELSE [ls EXCEPT ![SESSIONS_KEY] = JSON_stringify(sess)]

\* parsed.filter(o => o && typeof o.id === 'string')
loadOverrides(ls) ==
  LET HasId(o) == "id" \in DOMAIN o
  IN SelectSeq(safeParse(ls[OVERRIDES_KEY]), HasId)

saveOverrides(ls, ovs, throws) ==
  IF throws THEN ls ELSE [ls EXCEPT ![OVERRIDES_KEY] = JSON_stringify(ovs)]

\* the active workout is stored as one object: the text of <<a>> stands for
\* the text of a; a && a.id ? a : null
loadActive(ls) ==
  LET HasId(a) == "id" \in DOMAIN a
  IN SelectSeq(safeParse(ls[ACTIVE_KEY]), HasId)

\* saveActive(null) removes the item
saveActive(ls, act, throws) ==
  IF throws THEN ls
  ELSE IF act = <<>> THEN [ls EXCEPT ![ACTIVE_KEY] = NoItem]
  ELSE [ls EXCEPT ![ACTIVE_KEY] = JSON_stringify(act)]

\* { ...existing, ...o }
Merge(existing, o) ==
  [f \in DOMAIN existing \cup DOMAIN o |->
     IF f \in DOMAIN o THEN o[f] ELSE existing[f]]

IndexOfId(list, id) ==
  CHOOSE i \in 1..Len(list) :
    list[i].id = id /\ \A j \in 1..(i - 1) : list[j].id # id

HasId(list, id) == \E i \in 1..Len(list) : list[i].id = id

\* map.set(ex.id, ex) on a Map kept as the list of its values in insertion
\* order: an existing key keeps its place
MapSet(map, ex) ==
  IF HasId(map, ex.id) THEN [map EXCEPT ![IndexOfId(map, ex.id)] = ex]
  ELSE Append(map, ex)

RECURSIVE MapOf(_)
\* for (const ex of merged) map.set(ex.id, ex)
MapOf(merged) ==
  IF merged = <<>> THEN <<>>
  ELSE MapSet(MapOf(SubSeq(merged, 1, Len(merged) - 1)), merged[Len(merged)])

\* one turn of the loop over the overrides
ApplyOverride(map, o) ==
  LET Other(ex) == ex.id # o.id
  IN IF "deleted" \in DOMAIN o /\ o.deleted THEN SelectSeq(map, Other)
     ELSE IF HasId(map, o.id)
     THEN MapSet(map, Merge(map[IndexOfId(map, o.id)], o))
     ELSE map

RECURSIVE ApplyOverrides(_, _)
ApplyOverrides(map, ovs) ==
  IF ovs = <<>> THEN map
  ELSE ApplyOverride(ApplyOverrides(map, SubSeq(ovs, 1, Len(ovs) - 1)),
                     ovs[Len(ovs)])

loadExercises(ls) ==
  LET stored == safeParse(ls[EXERCISES_KEY])
      merged == DEFAULT_EXERCISES \o stored
  IN ApplyOverrides(MapOf(merged), loadOverrides(ls))

saveExercises(ls, exs, throws) ==
  LET Custom(e) == "createdByUser" \in DOMAIN e /\ e.createdByUser
  IN IF throws THEN ls
     ELSE [ls EXCEPT ![EXERCISES_KEY] = JSON_stringify(SelectSeq(exs, Custom))]

\* the four save effects of the first render, in the order they are declared
SaveEffects(ls, sess, act, exs, ovs, throws) ==
  saveOverrides(
    saveExercises(saveActive(saveSessions(ls, sess, throws), act, throws),
                  exs, throws),
    ovs, throws)

(***************************************************************************)
(* Sets and items                                                          *)
(***************************************************************************)
makeStrengthSet(id, isWarmup) ==
  [id |-> id, weight |-> 0, reps |-> 0, isWarmup |-> isWarmup]

makeCardioSet(id, isWarmup) ==
  [id |-> id, durationMin |-> 0, distanceMi |-> 0, calories |-> 0, rpe |-> 0,
   isWarmup |-> isWarmup]

\* the number of uid() calls of makeDefaultItem(ex)
DefaultItemUids(ex) == IF isCardio(ex) THEN 1 ELSE 3

\* makeDefaultItem(ex), its uid() calls returning id0, id0 + 1, ...
makeDefaultItem(ex, id0) ==
  [exerciseId |-> ex.id,
   sets |-> IF isCardio(ex)
            THEN << makeCardioSet(id0, FALSE) >>
            ELSE << makeStrengthSet(id0, FALSE),
                    makeStrengthSet(id0 + 1, FALSE),
                    makeStrengthSet(id0 + 2, FALSE) >>]

IsActive == active # <<>>
Active == active[1]

\* r with field f set to v (object spread with a one-field patch)
Patch(r, f, v) ==
  [g \in DOMAIN r \cup {f} |-> IF g = f THEN v ELSE r[g]]

(***************************************************************************)
(* Inputs of the page                                                      *)
(***************************************************************************)
\* the exercises the user adds to a workout
PageExIds == {"pullup", "tread"}

\* what the user types into an input of a strength row and of a cardio row:
\* the field of the input and the value typed
StrengthPatches == { <<"reps", 3>>, <<"reps", 10>> }
CardioPatches == { <<"durationMin", 30>> }

(***************************************************************************)
(* Handlers of the page                                                    *)
(***************************************************************************)
NonWarmup(s) == ~Warm(s)

\* the sets startWorkout(true) copies from item, uid() returning id0, ...
CopiedSets(item, id0) ==
  LET cardio == isCardio(getExerciseById(item.exerciseId))
      kept == SelectSeq(item.sets, NonWarmup)
  IN [i \in 1..Len(kept) |->
        IF cardio
        THEN [id |-> id0 + i - 1,
              durationMin |-> Num(kept[i], "durationMin"),
              distanceMi |-> Num(kept[i], "distanceMi"),
              calories |-> Num(kept[i], "calories"),
              rpe |-> Num(kept[i], "rpe"),
              isWarmup |-> FALSE]
        ELSE [id |-> id0 + i - 1,
              weight |-> Num(kept[i], "weight"),
              reps |-> Num(kept[i], "reps"),
              isWarmup |-> FALSE]]

\* the number of sets of the items before position k that are not warm-ups
RECURSIVE KeptBefore(_, _)
KeptBefore(items, k) ==
  IF k <= 1 THEN 0
  ELSE KeptBefore(items, k - 1)
         + Len(SelectSeq(items[k - 1].sets, NonWarmup))

CopiedItems(last, id0) ==
  [k \in 1..Len(last.items) |->
     [exerciseId |-> last.items[k].exerciseId,
      sets |-> CopiedSets(last.items[k], id0 + KeptBefore(last.items, k))]]

\* String.prototype.trim on the names typed into the forms: the texts with
\* blanks at an end are the ones below, every other text is its own trim
trim(str) ==
  IF str = " Rowing " THEN "Rowing"
  ELSE IF str = " Legs " THEN "Legs"
  ELSE IF str = "Push " THEN "Push"
  ELSE IF str = "  " THEN ""
  ELSE str

\* what is typed into the name inputs of the start form and the active session
WorkoutNames == {"", "  ", " Legs "}

startWorkout(copyLast) ==
  LET copies == copyLast /\ Len(sessions) > 0
      last == sessions[1]
      uids == 1 + (IF copies
                   THEN KeptBefore(last.items, Len(last.items) + 1) ELSE 0)
      base == [id |-> nextUid,
               dateISO |-> dateInputToISO(workoutDate),
               name |-> IF copies
                        THEN (IF last.name # "" THEN last.name \o " (Copy)"
                              ELSE "Copied Workout")
                        ELSE trim(workoutName),
               items |-> IF copies THEN CopiedItems(last, nextUid + 1)
                         ELSE <<>>]
  IN /\ nextUid + uids - 1 <= MaxUid
     /\ active' = <<base>>
     /\ tab' = "active"
     /\ nextUid' = nextUid + uids
     /\ UNCHANGED <<exercises, overrides, sessions, workoutName, workoutDate>>

\* the callback of the set filter of finishWorkout: is s not blank
isFilled(cardio, s) ==
  IF cardio
  THEN \/ Num(s, "durationMin") > 0
       \/ Num(s, "distanceMi") > 0
       \/ Num(s, "calories") > 0
       \/ Num(s, "rpe") > 0
  ELSE Num(s, "reps") > 0 \/ Num(s, "weight") # 0

\* mutant of hasLoggedSomething: only the weight and reps are looked at
hasLoggedSomething_strengthOnly(session) ==
  \E k \in 1..Len(session.items) :
    \E i \in 1..Len(session.items[k].sets) :
      LET s == session.items[k].sets[i]
      IN Num(s, "weight") # 0 \/ Num(s, "reps") > 0

\* hasLoggedSomething(session): a set has a field filled, of either category
hasLoggedSomething(session) ==
  \E k \in 1..Len(session.items) :
    \E i \in 1..Len(session.items[k].sets) :
      LET s == session.items[k].sets[i]
          strengthFilled == Num(s, "weight") # 0 \/ Num(s, "reps") > 0
          cardioFilled == \/ Num(s, "durationMin") > 0
                          \/ Num(s, "distanceMi") > 0
                          \/ Num(s, "calories") > 0
                          \/ Num(s, "rpe") > 0
      IN strengthFilled \/ cardioFilled

\* discardWorkout, window.confirm returning ok when it is called
discardWorkout(ok) ==
  IF IsActive /\ hasLoggedSomething(Active)
  THEN /\ dialog' = IF ok THEN "accepted" ELSE "declined"
       /\ IF ok THEN active' = <<>> /\ tab' = "library"
          ELSE UNCHANGED <<active, tab>>
       /\ UNCHANGED <<exercises, overrides, sessions, workoutName,
                      workoutDate, nextUid>>
  ELSE /\ dialog' = "none"
       /\ active' = <<>>
       /\ tab' = "library"
       /\ UNCHANGED <<exercises, overrides, sessions, workoutName,
                      workoutDate, nextUid>>

\* mutant of cleanedItems: the items left without sets are kept
cleanedItems_keepsEmptyItems(items) ==
  LET Clean(item) ==
        LET cardio == isCardio(getExerciseById(item.exerciseId))
            Keep(s) == isFilled(cardio, s)
        IN [item EXCEPT !.sets = SelectSeq(item.sets, Keep)]
  IN [k \in 1..Len(items) |-> Clean(items[k])]

cleanedItems(items) ==
  LET Clean(item) ==
        LET cardio == isCardio(getExerciseById(item.exerciseId))
            Keep(s) == isFilled(cardio, s)
        IN [item EXCEPT !.sets = SelectSeq(item.sets, Keep)]
      NonEmpty(item) == Len(item.sets) > 0
  IN SelectSeq([k \in 1..Len(items) |-> Clean(items[k])], NonEmpty)

finishWorkout ==
  /\ IsActive
  /\ LET finished ==
           [Active EXCEPT
              !.name = IF trim(Active.name) # "" THEN trim(Active.name)
                       ELSE IF trim(workoutName) # "" THEN trim(workoutName)
                       ELSE "Workout",
              !.items = cleanedItems(Active.items)]
     IN sessions' = sortByNewest(<<finished>> \o sessions)
  /\ active' = <<>>
  /\ tab' = "history"
  /\ UNCHANGED <<exercises, overrides, workoutName, workoutDate, nextUid>>

\* mutant of addExerciseToActive: the test `exists` is missing
addExerciseToActive_noExistsTest(ex) ==
  /\ IF ~IsActive
     THEN /\ nextUid + DefaultItemUids(ex) <= MaxUid
          /\ active' = << [id |-> nextUid,
                           dateISO |-> dateInputToISO(workoutDate),
                           name |-> trim(workoutName),
                           items |-> << makeDefaultItem(ex, nextUid + 1) >>] >>
          /\ nextUid' = nextUid + 1 + DefaultItemUids(ex)
     ELSE /\ nextUid + DefaultItemUids(ex) - 1 <= MaxUid
          /\ active' = << [Active EXCEPT !.items =
                             Append(@, makeDefaultItem(ex, nextUid))] >>
          /\ nextUid' = nextUid + DefaultItemUids(ex)
  /\ tab' = "active"
  /\ UNCHANGED <<exercises, overrides, sessions, workoutName, workoutDate>>

addExerciseToActive(ex) ==
  /\ IF ~IsActive
     THEN /\ nextUid + DefaultItemUids(ex) <= MaxUid
          /\ active' = << [id |-> nextUid,
                           dateISO |-> dateInputToISO(workoutDate),
                           name |-> trim(workoutName),
                           items |-> << makeDefaultItem(ex, nextUid + 1) >>] >>
          /\ nextUid' = nextUid + 1 + DefaultItemUids(ex)
     ELSE IF \E k \in 1..Len(Active.items) : Active.items[k].exerciseId = ex.id
     THEN UNCHANGED <<active, nextUid>>
     ELSE /\ nextUid + DefaultItemUids(ex) - 1 <= MaxUid
          /\ active' = << [Active EXCEPT !.items =
                             Append(@, makeDefaultItem(ex, nextUid))] >>
          /\ nextUid' = nextUid + DefaultItemUids(ex)
  /\ tab' = "active"
  /\ UNCHANGED <<exercises, overrides, sessions, workoutName, workoutDate>>

\* prev.items.map(item => item.exerciseId !== exerciseId ? item : changed)
\* where changed is the item with its sets replaced by newSets[k]
MapItemsOf(exerciseId, newSets) ==
  << [Active EXCEPT !.items =
        [k \in 1..Len(@) |->
           IF @[k].exerciseId # exerciseId THEN @[k]
           ELSE [@[k] EXCEPT !.sets = newSets[k]]]] >>

addSet(exerciseId, isWarmup) ==
  /\ IsActive
  /\ nextUid <= MaxUid
  /\ \A k \in 1..Len(Active.items) :
       Active.items[k].exerciseId = exerciseId =>
         Len(Active.items[k].sets) < MaxSets
  /\ LET newSet == IF isCardio(getExerciseById(exerciseId))
                   THEN makeCardioSet(nextUid, isWarmup)
                   ELSE makeStrengthSet(nextUid, isWarmup)
     IN active' = MapItemsOf(exerciseId,
                   [k \in 1..Len(Active.items) |->
                      Append(Active.items[k].sets, newSet)])
  /\ nextUid' = nextUid + 1
  /\ UNCHANGED <<exercises, overrides, sessions, tab,
                 workoutName, workoutDate>>

updateSet(exerciseId, setId, field, value) ==
  /\ IsActive
  /\ LET Patched(sets) ==
           [i \in 1..Len(sets) |->
              IF sets[i].id = setId THEN Patch(sets[i], field, value)
              ELSE sets[i]]
     IN active' = MapItemsOf(exerciseId,
                   [k \in 1..Len(Active.items) |->
                      Patched(Active.items[k].sets)])
  /\ UNCHANGED <<exercises, overrides, sessions, tab,
                 workoutName, workoutDate, nextUid>>

removeSet(exerciseId, setId) ==
  /\ IsActive
  /\ LET Other(s) == s.id # setId
     IN active' = MapItemsOf(exerciseId,
                   [k \in 1..Len(Active.items) |->
                      SelectSeq(Active.items[k].sets, Other)])
  /\ UNCHANGED <<exercises, overrides, sessions, tab,
                 workoutName, workoutDate, nextUid>>

\* the Delete button of a session of the history tab
deleteSession(id) ==
  /\ LET Other(p) == p.id # id
     IN sessions' = SelectSeq(sessions, Other)
  /\ UNCHANGED <<exercises, overrides, active, tab,
                 workoutName, workoutDate, nextUid>>

\* the date input of the start form
setWorkoutDate(val) ==
  /\ workoutDate' = val
  /\ UNCHANGED <<exercises, overrides, sessions, active,
                 tab, workoutName, nextUid>>

\* the name input of the start form
setWorkoutName(val) ==
  /\ workoutName' = val
  /\ UNCHANGED <<exercises, overrides, sessions, active,
                 tab, workoutDate, nextUid>>

\* the name input of the active session
setActiveName(val) ==
  /\ IsActive
  /\ workoutName' = val
  /\ active' = << [Active EXCEPT !.name = val] >>
  /\ UNCHANGED <<exercises, overrides, sessions, tab, workoutDate, nextUid>>

\* the date input of the active session
setActiveDate(val) ==
  /\ IsActive
  /\ workoutDate' = val
  /\ active' = << [Active EXCEPT !.dateISO = dateInputToISO(val)] >>
  /\ UNCHANGED <<exercises, overrides, sessions, tab, workoutName, nextUid>>

(***************************************************************************)
(* The page: what the user can do in each state                            *)
(***************************************************************************)
\* Assignments and WaterIntake after construction, nobody logged in: the
\* useState initial values, no handler called, no fetch under way
InitAssignmentsState ==
  /\ assignments = <<>>
  /\ loading = TRUE
  /\ requests = <<>>
  /\ nextId = MaxAssignments + 1

InitWaterState ==
  /\ isSetup = FALSE
  /\ bottleName = ""
  /\ bottleOz = <<>>
  /\ dailyGoal = <<>>
  /\ currentOz = 0
  /\ showConfetti = FALSE
  /\ hasReachedGoal = FALSE
  /\ timers = 0

InitOtherPages ==
  /\ username = <<>>
  /\ InitAssignmentsState
  /\ InitWaterState
  /\ waterFetch = "settled"

\* the state after the first render and its effects, in a browser that never
\* ran the page and whose storage takes writes (throws is false) or not
InitPageIn(throws) ==
  /\ storageThrows = throws
  /\ exercises = loadExercises(EmptyStorage)
  /\ overrides = loadOverrides(EmptyStorage)
  /\ sessions = sortByNewest(loadSessions(EmptyStorage))
  /\ active = loadActive(EmptyStorage)
  /\ localStorage = SaveEffects(EmptyStorage, sessions, active, exercises,
                                overrides, throws)
  /\ historyMemo = historyMap(sessions)
  /\ dialog = "none"
  /\ tab = "library"
  /\ workoutName = ""
  /\ workoutDate \in 1..MaxDay
  /\ nextUid = 1

InitPage == InitPageIn(FALSE)

InitWorkouts ==
  /\ InitOtherPages
  /\ \E throws \in BOOLEAN : InitPageIn(throws)
  /\ sgExercise = [category |-> "Strength", equipment |-> "Barbell",
                   muscle |-> "Chest"]
  /\ sgHistory = <<>>
  /\ sgHint = NotCalled
  /\ calls = NoCalls
  /\ loaded = NothingLoaded

Tabs == {"library", "active", "history"}

\* the tab buttons
setTab(t) ==
  /\ tab' = t
  /\ UNCHANGED <<exercises, overrides, sessions, active, workoutName,
                 workoutDate, nextUid>>

\* what the render shows: the start form and the exercise library on the
\* Library tab, the active session on the Active tab, the past sessions on
\* the History tab; Start and Copy Last on every tab, on the Active tab only
\* while no workout is active
OnLibrary == tab = "library"
OnActive == tab = "active" /\ IsActive
OnHistory == tab = "history"
StartShown == tab = "active" => ~IsActive

\* the save effects of the render that follows a handler: each effect runs
\* when the state it depends on changed
Effects ==
  LET throws == storageThrows
      ls1 == IF sessions' # sessions
             THEN saveSessions(localStorage, sessions', throws)
             ELSE localStorage
      ls2 == IF active' # active THEN saveActive(ls1, active', throws)
             ELSE ls1
      ls3 == IF exercises' # exercises
             THEN saveExercises(ls2, exercises', throws) ELSE ls2
  IN localStorage' = IF overrides' # overrides
                     THEN saveOverrides(ls3, overrides', throws) ELSE ls3

StartWorkout ==
  /\ StartShown
  /\ \E copyLast \in BOOLEAN : startWorkout(copyLast)
  /\ Effects
  /\ Memo
  /\ NoDialog
  /\ UNCHANGED <<storageThrows, sgVars, otherPages>>

FinishWorkout ==
  /\ OnActive
  /\ finishWorkout
  /\ Effects
  /\ Memo
  /\ NoDialog
  /\ UNCHANGED <<storageThrows, sgVars, otherPages>>

\* the Discard button of the active workout
DiscardWorkout ==
  /\ OnActive
  /\ IsActive
  /\ \E ok \in BOOLEAN : discardWorkout(ok)
  /\ Effects
  /\ Memo
  /\ UNCHANGED <<storageThrows, sgVars, otherPages>>

AddExerciseToActive ==
  /\ OnLibrary
  /\ \E k \in 1..Len(exercises) :
       /\ exercises[k].id \in PageExIds
       /\ addExerciseToActive(exercises[k])
  /\ Effects
  /\ Memo
  /\ NoDialog
  /\ UNCHANGED <<storageThrows, sgVars, otherPages>>

AddSet ==
  /\ OnActive
  /\ IsActive
  /\ \E k \in 1..Len(Active.items), isWarmup \in BOOLEAN :
       addSet(Active.items[k].exerciseId, isWarmup)
  /\ Effects
  /\ Memo
  /\ NoDialog
  /\ UNCHANGED <<storageThrows, sgVars, otherPages>>

\* one input of one set row of the active workout changes
UpdateSet ==
  /\ OnActive
  /\ IsActive
  /\ \E k \in 1..Len(Active.items) :
       \E i \in 1..Len(Active.items[k].sets) :
         LET item == Active.items[k]
             cardio == isCardio(getExerciseById(item.exerciseId))
         IN \E patch \in IF cardio THEN CardioPatches ELSE StrengthPatches :
              updateSet(item.exerciseId, item.sets[i].id, patch[1], patch[2])
  /\ Effects
  /\ Memo
  /\ NoDialog
  /\ UNCHANGED <<storageThrows, sgVars, otherPages>>

RemoveSet ==
  /\ OnActive
  /\ IsActive
  /\ \E k \in 1..Len(Active.items) :
       \E i \in 1..Len(Active.items[k].sets) :
         removeSet(Active.items[k].exerciseId, Active.items[k].sets[i].id)
  /\ Effects
  /\ Memo
  /\ NoDialog
  /\ UNCHANGED <<storageThrows, sgVars, otherPages>>

DeleteSession ==
  /\ OnHistory
  /\ \E k \in 1..Len(sessions) : deleteSession(sessions[k].id)
  /\ Effects
  /\ Memo
  /\ NoDialog
  /\ UNCHANGED <<storageThrows, sgVars, otherPages>>

SetWorkoutDate ==
  /\ OnLibrary
  /\ \E val \in 1..MaxDay : setWorkoutDate(val)
  /\ Effects
  /\ Memo
  /\ NoDialog
  /\ UNCHANGED <<storageThrows, sgVars, otherPages>>

SetActiveDate ==
  /\ OnActive
  /\ \E val \in 1..MaxDay : setActiveDate(val)
  /\ Effects
  /\ Memo
  /\ NoDialog
  /\ UNCHANGED <<storageThrows, sgVars, otherPages>>

SetWorkoutName ==
  /\ OnLibrary
  /\ \E val \in WorkoutNames : setWorkoutName(val)
  /\ Effects
  /\ Memo
  /\ NoDialog
  /\ UNCHANGED <<storageThrows, sgVars, otherPages>>

SetActiveName ==
  /\ OnActive
  /\ \E val \in WorkoutNames : setActiveName(val)
  /\ Effects
  /\ Memo
  /\ NoDialog
  /\ UNCHANGED <<storageThrows, sgVars, otherPages>>

SetTab ==
  /\ \E t \in Tabs : setTab(t)
  /\ Effects
  /\ Memo
  /\ NoDialog
  /\ UNCHANGED <<storageThrows, sgVars, otherPages>>

(***************************************************************************)
(* The exercise library: createCustomExercise, saveEdit, deleteExercise,   *)
(* and the effects of the render that follows them.                        *)
(***************************************************************************)
MaxCustom == 1

\* uid() as the id of an exercise: exercise ids are strings
UidText(n) == <<"ex1", "ex2", "ex3", "ex4", "ex5", "ex6", "ex7", "ex8",
                "ex9", "ex10", "ex11", "ex12">>[n]

\* what the form of the Add Custom Exercise card holds when Add is pressed
CustomForms ==
  { [name |-> "Sled Push", category |-> "Strength", muscle |-> "Legs",
     equipment |-> "Other", compound |-> TRUE],
    [name |-> " Rowing ", category |-> "Cardio", muscle |-> "",
     equipment |-> "Machine", compound |-> TRUE],
    [name |-> "  ", category |-> "Strength", muscle |-> "Other",
     equipment |-> "Other", compound |-> FALSE] }

\* what the edit form holds when Save is pressed
EditForms ==
  { [name |-> "  ", category |-> "Cardio", muscle |-> "Cardio",
     equipment |-> "Machine", compound |-> TRUE],
    [name |-> "Weighted Pull-Ups", category |-> "Strength", muscle |-> "Back",
     equipment |-> "Dumbbell", compound |-> TRUE] }

IsCustom(e) == "createdByUser" \in DOMAIN e /\ e.createdByUser

\* the exercise createCustomExercise builds, uid() returning id
customExercise(form, id) ==
  [id |-> id,
   name |-> trim(form.name),
   muscle |-> IF form.muscle # "" THEN form.muscle
              ELSE IF form.category = "Cardio" THEN "Cardio" ELSE "Other",
   equipment |-> IF form.equipment # "" THEN form.equipment ELSE "Other",
   compound |-> IF form.category = "Strength" THEN form.compound ELSE FALSE,
   category |-> form.category,
   createdByUser |-> TRUE]

\* createCustomExercise: the list passed to setExercises
createCustomExercise(form) ==
  << customExercise(form, UidText(nextUid)) >> \o exercises

\* the patch saveEdit builds for target
editPatch(target, form) ==
  [name |-> IF trim(form.name) # "" THEN trim(form.name) ELSE target.name,
   category |-> form.category,
   muscle |-> form.muscle,
   equipment |-> form.equipment,
   compound |-> IF form.category = "Strength" THEN form.compound ELSE FALSE]

\* upsertOverride(id, patch): the list passed to setOverrides
upsertOverride(id, patch) ==
  LET Other(o) == o.id # id
  IN Append(SelectSeq(overrides, Other), Merge([id |-> id], patch))

\* saveEdit with editingId = id: the list passed to setExercises
saveEdit(id, form) ==
  LET patch == editPatch(getExerciseById(id), form)
  IN [k \in 1..Len(exercises) |->
        IF exercises[k].id = id THEN Merge(exercises[k], patch)
        ELSE exercises[k]]

\* deleteExercise(id), confirmed: the list passed to setExercises
deleteExercise(id) ==
  LET Other(e) == e.id # id
  IN SelectSeq(exercises, Other)

\* the effects of the render that follows a library handler that passed exs
\* to setExercises: the four save effects, then the effect on
\* overrides.length, which sets the exercises to loadExercises(), and the
\* save effect of the exercises of the render that follows
LibraryEffects(exs) ==
  LET throws == storageThrows
      ls1 == IF sessions' # sessions
             THEN saveSessions(localStorage, sessions', throws)
             ELSE localStorage
      ls2 == IF active' # active THEN saveActive(ls1, active', throws)
             ELSE ls1
      ls3 == IF exs # exercises THEN saveExercises(ls2, exs, throws) ELSE ls2
      ls4 == IF overrides' # overrides
             THEN saveOverrides(ls3, overrides', throws) ELSE ls3
      reload == Len(overrides') # Len(overrides)
  IN /\ exercises' = IF reload THEN loadExercises(ls4) ELSE exs
     /\ localStorage' =
          IF reload THEN saveExercises(ls4, loadExercises(ls4), throws)
          ELSE ls4

CreateCustomExercise ==
  /\ OnLibrary
  /\ nextUid <= MaxUid
  /\ Cardinality({ k \in 1..Len(exercises) : IsCustom(exercises[k]) })
       < MaxCustom
  /\ \E form \in CustomForms :
       /\ trim(form.name) # ""
       /\ nextUid' = nextUid + 1
       /\ UNCHANGED <<overrides, sessions, active, tab, workoutName,
                      workoutDate>>
       /\ LibraryEffects(createCustomExercise(form))
       /\ Memo
       /\ NoDialog
  /\ UNCHANGED <<storageThrows, sgVars, otherPages>>

\* the ids of the exercises whose cards are edited or deleted
LibraryIds == PageExIds \cup { UidText(n) : n \in 1..MaxUid }

SaveEdit ==
  /\ OnLibrary
  /\ \E k \in 1..Len(exercises), form \in EditForms :
       LET target == exercises[k]
       IN /\ target.id \in LibraryIds
          /\ overrides' = IF IsCustom(target) THEN overrides
                          ELSE upsertOverride(
                                 target.id,
                                 Merge(editPatch(target, form),
                                       [deleted |-> FALSE]))
          /\ UNCHANGED <<sessions, active, tab, workoutName, workoutDate,
                         nextUid>>
          /\ LibraryEffects(saveEdit(target.id, form))
          /\ Memo
          /\ NoDialog
  /\ UNCHANGED <<storageThrows, sgVars, otherPages>>

\* the Delete button of a library card, window.confirm returning ok: a
\* declined dialog returns before any state is set
DeleteExercise ==
  /\ OnLibrary
  /\ \E k \in 1..Len(exercises), ok \in BOOLEAN :
       LET target == exercises[k]
           OtherItem(i) == i.exerciseId # target.id
       IN /\ target.id \in LibraryIds
          /\ dialog' = IF ok THEN "accepted" ELSE "declined"
          /\ IF ok
             THEN /\ active' = IF IsActive
                               THEN << [Active EXCEPT
                                          !.items = SelectSeq(@, OtherItem)] >>
                               ELSE active
                  /\ overrides' =
                       IF IsCustom(target) THEN overrides
                       ELSE upsertOverride(target.id, [deleted |-> TRUE])
                  /\ UNCHANGED <<sessions, tab, workoutName, workoutDate,
                                 nextUid>>
                  /\ LibraryEffects(deleteExercise(target.id))
             ELSE /\ UNCHANGED <<active, overrides, sessions, tab,
                                 workoutName, workoutDate, nextUid>>
                  /\ LibraryEffects(exercises)
          /\ Memo
  /\ UNCHANGED <<storageThrows, sgVars, otherPages>>

\* every control of the page
Next ==
  \/ SetTab
  \/ StartWorkout
  \/ FinishWorkout
  \/ DiscardWorkout
  \/ AddExerciseToActive
  \/ AddSet
  \/ UpdateSet
  \/ RemoveSet
  \/ DeleteSession
  \/ SetWorkoutDate
  \/ SetActiveDate
  \/ SetWorkoutName
  \/ SetActiveName
  \/ CreateCustomExercise
  \/ SaveEdit
  \/ DeleteExercise

Spec == InitWorkouts /\ [][Next]_vars

\* workouts started, logged, dated, finished, discarded and deleted, the
\* library and the names left as they are
NextSessions ==
  \/ SetTab
  \/ StartWorkout
  \/ FinishWorkout
  \/ DiscardWorkout
  \/ AddExerciseToActive
  \/ AddSet
  \/ UpdateSet
  \/ RemoveSet
  \/ DeleteSession
  \/ SetWorkoutDate
  \/ SetActiveDate

SpecSessions == InitWorkouts /\ [][NextSessions]_vars

\* workouts named, logged and finished
NextNames ==
  \/ SetTab
  \/ SetWorkoutName
  \/ SetActiveName
  \/ StartWorkout
  \/ AddExerciseToActive
  \/ AddSet
  \/ UpdateSet
  \/ RemoveSet
  \/ FinishWorkout

SpecNames == InitWorkouts /\ [][NextNames]_vars

\* the library handlers
NextLibrary ==
  \/ SetTab
  \/ CreateCustomExercise
  \/ SaveEdit
  \/ DeleteExercise

SpecLibrary == InitWorkouts /\ [][NextLibrary]_vars

\* the active workout from its start to its end, and deletions of exercises
NextActive ==
  \/ SetTab
  \/ StartWorkout
  \/ AddExerciseToActive
  \/ AddSet
  \/ UpdateSet
  \/ RemoveSet
  \/ DeleteExercise
  \/ FinishWorkout

SpecActive == InitWorkouts /\ [][NextActive]_vars

\* what the hints depend on: sessions finished and deleted, exercises edited
NextHints ==
  \/ SetTab
  \/ AddExerciseToActive
  \/ UpdateSet
  \/ FinishWorkout
  \/ DeleteSession
  \/ SaveEdit

\* the page opened on day 1 in a browser whose storage takes writes
InitToday ==
  /\ InitWorkouts
  /\ ~storageThrows
  /\ workoutDate = 1

SpecHints == InitToday /\ [][NextHints]_vars

(***************************************************************************)
(* Inputs of the suggestion function                                       *)
(***************************************************************************)
SgCategories == {"Strength", "Cardio"}
SgEquipment == {"Bodyweight", "Dumbbell", "Barbell"}
SgMuscles == {"Chest", "Shoulders", "Arms", "Back"}

SgExercises ==
  [category : SgCategories, equipment : SgEquipment, muscle : SgMuscles]

SgWeights == {-20, 0, 135}
SgReps == {0, 4, 5, 7, 8, 10, 12, 13}

\* sets with every strength field, the sets of the spec's scenarios, and sets
\* with absent fields (a cardio set has neither weight nor reps)
SgSets ==
  [isWarmup : BOOLEAN, weight : SgWeights, reps : SgReps]
    \cup { [isWarmup |-> FALSE, weight |-> 25, reps |-> 15],
           [isWarmup |-> FALSE, weight |-> -20, reps |-> 9],
           [isWarmup |-> FALSE, weight |-> 0, reps |-> 11],
           [isWarmup |-> FALSE, weight |-> 135, reps |-> -1] }
    \cup [isWarmup : {FALSE}, weight : SgWeights]
    \cup [isWarmup : {FALSE}, reps : {0, 5, 11, 12}]
    \cup [weight : {0, 135}, reps : {8}]
    \cup { [isWarmup |-> TRUE, durationMin |-> 30, distanceMi |-> 3,
            calories |-> 0, rpe |-> 0],
           [isWarmup |-> FALSE, durationMin |-> 30, distanceMi |-> 3,
            calories |-> 0, rpe |-> 0] }

SgHistories == UNION { [1..n -> SgSets] : n \in 0..MaxHist }

(***************************************************************************)
(* The suggestion function applied to drawn inputs                         *)
(***************************************************************************)
InitSuggest ==
  /\ InitOtherPages
  /\ InitPage
  /\ workoutDate = 1
  /\ sgExercise \in SgExercises
  /\ sgHistory \in SgHistories
  /\ sgHint = NotCalled
  /\ calls = NoCalls
  /\ loaded = NothingLoaded

\* mutant of the call: the filter of line 217 applied to the caller's list
CallGetSuggestion_filtersInPlace ==
  /\ sgHint = NotCalled
  /\ sgHint' = getSuggestion(sgExercise, sgHistory)
  /\ sgHistory' = IF isCardio(sgExercise) THEN sgHistory
                  ELSE work(isBodyweightStrength(sgExercise), sgHistory)
  /\ UNCHANGED <<sgExercise, calls, loaded>>
  /\ UNCHANGED <<pageVars, otherPages>>

\* one call of getSuggestion(exercise, historySets): the function reads its
\* arguments, builds the list work with filter, which returns a new array,
\* and returns a string; it assigns to nothing else
CallGetSuggestion ==
  /\ sgHint = NotCalled
  /\ sgHint' = getSuggestion(sgExercise, sgHistory)
  /\ UNCHANGED <<sgExercise, sgHistory, calls, loaded>>
  /\ UNCHANGED <<pageVars, otherPages>>

NextSuggest == CallGetSuggestion

SpecSuggest == InitSuggest /\ [][NextSuggest]_vars

(***************************************************************************)
(* The storage functions on their own: a list of sessions, an active       *)
(* workout or none, and a list of overrides as the page holds them, each   *)
(* saved and then loaded.  setItem may throw (quota, private mode); the    *)
(* catch of the save functions swallows it and the stored text stays.      *)
(***************************************************************************)
MaxStored == 2

StWarmup == [id |-> 2, weight |-> 45, reps |-> 10, isWarmup |-> TRUE]
StWorking == [id |-> 3, weight |-> 135, reps |-> 8, isWarmup |-> FALSE]
StRun == [id |-> 6, durationMin |-> 30, distanceMi |-> 2, calories |-> 300,
          rpe |-> 0, isWarmup |-> FALSE]

\* sessions as finishWorkout stores them
StSessionSet ==
  { [id |-> 1, dateISO |-> dateInputToISO(1), name |-> "Push Day",
     items |-> << [exerciseId |-> "bench",
                   sets |-> << StWarmup, StWorking >>] >>],
    [id |-> 4, dateISO |-> dateInputToISO(2), name |-> "Workout",
     items |-> << [exerciseId |-> "bench", sets |-> << StWorking >>],
                  [exerciseId |-> "tread", sets |-> << StRun >>] >>],
    [id |-> 7, dateISO |-> dateInputToISO(2), name |-> "Push Day (Copy)",
     items |-> <<>>] }

Injective(list) ==
  \A i, j \in 1..Len(list) : list[i].id = list[j].id => i = j

ListsOver(S) ==
  { list \in UNION { [1..n -> S] : n \in 0..MaxStored } : Injective(list) }

\* the page keeps its sessions newest first
StSessionLists ==
  { list \in ListsOver(StSessionSet) : sortByNewest(list) = list }

\* no active workout, one just started, one with sets logged
StActives ==
  { <<>>,
    << [id |-> 8, dateISO |-> dateInputToISO(1), name |-> "",
        items |-> <<>>] >>,
    << [id |-> 8, dateISO |-> dateInputToISO(2), name |-> "Legs",
        items |-> << [exerciseId |-> "squat",
                      sets |-> << StWarmup, StWorking >>] >>] >> }

\* overrides as deleteExercise and saveEdit write them
StOverrideSet ==
  { [id |-> "bench", deleted |-> TRUE],
    [id |-> "squat", name |-> "Back Squat", muscle |-> "Legs",
     equipment |-> "Barbell", compound |-> TRUE, category |-> "Strength",
     deleted |-> FALSE],
    [id |-> "tread", name |-> "Treadmill", muscle |-> "Other",
     equipment |-> "Machine", compound |-> FALSE, category |-> "Strength",
     deleted |-> FALSE] }

StOverrideLists == ListsOver(StOverrideSet)

InitStorage ==
  /\ InitOtherPages
  /\ exercises = DEFAULT_EXERCISES
  /\ sessions \in StSessionLists
  /\ active \in StActives
  /\ overrides \in StOverrideLists
  /\ localStorage = EmptyStorage
  /\ storageThrows = FALSE
  /\ historyMemo = historyMap(sessions)
  /\ dialog = "none"
  /\ tab = "library"
  /\ workoutName = ""
  /\ workoutDate = 1
  /\ nextUid = 9
  /\ sgExercise = [category |-> "Strength", equipment |-> "Barbell",
                   muscle |-> "Chest"]
  /\ sgHistory = <<>>
  /\ sgHint = NotCalled
  /\ calls = NoCalls
  /\ loaded = NothingLoaded

\* a save function called: the write happens (the storage is then written),
\* or setItem throws and the catch leaves the storage as it was (kept)
Save(key, written, kept) ==
  /\ key \notin loaded.saved
  /\ \E throws \in BOOLEAN :
       /\ storageThrows' = throws
       /\ localStorage' = IF throws THEN kept ELSE written
       /\ loaded' = [loaded EXCEPT
                       !.saved = @ \cup {key},
                       !.written = IF throws THEN @ ELSE @ \cup {key}]
  /\ UNCHANGED <<exercises, overrides, historyMemo, dialog, sessions, active,
                 tab, workoutName, workoutDate, nextUid, sgExercise, sgHistory,
                 sgHint, calls, otherPages>>

SaveSessions ==
  Save(SESSIONS_KEY, saveSessions(localStorage, sessions, FALSE),
       saveSessions(localStorage, sessions, TRUE))

SaveActive ==
  Save(ACTIVE_KEY, saveActive(localStorage, active, FALSE),
       saveActive(localStorage, active, TRUE))

SaveOverrides ==
  Save(OVERRIDES_KEY, saveOverrides(localStorage, overrides, FALSE),
       saveOverrides(localStorage, overrides, TRUE))

LoadSessions ==
  /\ SESSIONS_KEY \in loaded.saved \ loaded.read
  /\ loaded' = [loaded EXCEPT !.read = @ \cup {SESSIONS_KEY},
                              !.sessions = loadSessions(localStorage)]
  /\ UNCHANGED <<pageVars, otherPages, sgExercise, sgHistory, sgHint, calls>>

LoadActive ==
  /\ ACTIVE_KEY \in loaded.saved \ loaded.read
  /\ loaded' = [loaded EXCEPT !.read = @ \cup {ACTIVE_KEY},
                              !.active = loadActive(localStorage)]
  /\ UNCHANGED <<pageVars, otherPages, sgExercise, sgHistory, sgHint, calls>>

LoadOverrides ==
  /\ OVERRIDES_KEY \in loaded.saved \ loaded.read
  /\ loaded' = [loaded EXCEPT !.read = @ \cup {OVERRIDES_KEY},
                              !.overrides = loadOverrides(localStorage)]
  /\ UNCHANGED <<pageVars, otherPages, sgExercise, sgHistory, sgHint, calls>>

NextStorage ==
  \/ SaveSessions
  \/ SaveActive
  \/ SaveOverrides
  \/ LoadSessions
  \/ LoadActive
  \/ LoadOverrides

SpecStorage == InitStorage /\ [][NextStorage]_vars

(***************************************************************************)
(* Evaluations of getSuggestion side by side.  The library card and the    *)
(* active-workout card both call getSuggestion; each evaluation is taken   *)
(* in the steps of the function body: the cardio branch, which returns at  *)
(* once, or the filter into the local list work and then the return from   *)
(* the last element of work.  The exercise and the history are shared by   *)
(* the evaluations; work is local to each.                                 *)
(***************************************************************************)
MaxCallers == 2

Callers == 1..MaxCallers

CcSets ==
  { [weight |-> 135, reps |-> 10, isWarmup |-> FALSE],
    [weight |-> 135, reps |-> 13, isWarmup |-> FALSE],
    [weight |-> 45, reps |-> 4, isWarmup |-> TRUE],
    [weight |-> 0, reps |-> 7, isWarmup |-> FALSE],
    [weight |-> -20, reps |-> 0, isWarmup |-> FALSE],
    [durationMin |-> 30, isWarmup |-> FALSE] }

CcHistories == UNION { [1..n -> CcSets] : n \in 0..MaxHist }

InitConcurrent ==
  /\ InitOtherPages
  /\ InitPage
  /\ workoutDate = 1
  /\ sgExercise \in SgExercises
  /\ sgHistory \in CcHistories
  /\ sgHint = NotCalled
  /\ calls = [c \in Callers |->
                [pc |-> "start", work |-> <<>>, hint |-> NotCalled]]
  /\ loaded = NothingLoaded

\* lines 233-269: the return of the Strength branch from the local list w
strengthSuggestion(exercise, w) ==
  LET bodyweight == isBodyweightStrength(exercise)
  IN IF Len(w) = 0
     THEN "No history yet -- start comfortable and focus on clean form."
     ELSE LET last == w[Len(w)]
              reps == Num(last, "reps")
              load == Num(last, "weight")
          IN IF bodyweight
             THEN IF load > 0 THEN addedWeightSuggestion(reps)
                  ELSE IF load < 0 THEN assistedSuggestion(reps)
                  ELSE unweightedSuggestion(reps)
             ELSE loadedSuggestion(exercise, reps)

\* evaluation c takes the cardio branch and returns
CardioReturn(c) ==
  /\ calls[c].pc = "start"
  /\ isCardio(sgExercise)
  /\ calls' = [calls EXCEPT ![c].pc = "done",
                            ![c].hint = cardioSuggestion(sgHistory)]
  /\ UNCHANGED <<sgExercise, sgHistory, sgHint, loaded>>
  /\ UNCHANGED <<pageVars, otherPages>>

\* mutant of the filter step: the working sets replace the shared list
FilterWork_inPlace(c) ==
  /\ calls[c].pc = "start"
  /\ ~isCardio(sgExercise)
  /\ sgHistory' = work(isBodyweightStrength(sgExercise), sgHistory)
  /\ calls' = [calls EXCEPT ![c].pc = "filtered", ![c].work = sgHistory']
  /\ UNCHANGED <<sgExercise, sgHint, loaded>>
  /\ UNCHANGED <<pageVars, otherPages>>

\* evaluation c runs const work = historySets.filter(...): a new array
FilterWork(c) ==
  /\ calls[c].pc = "start"
  /\ ~isCardio(sgExercise)
  /\ calls' = [calls EXCEPT
                 ![c].pc = "filtered",
                 ![c].work = work(isBodyweightStrength(sgExercise),
                                  sgHistory)]
  /\ UNCHANGED <<sgExercise, sgHistory, sgHint, loaded>>
  /\ UNCHANGED <<pageVars, otherPages>>

\* evaluation c returns from its list work
StrengthReturn(c) ==
  /\ calls[c].pc = "filtered"
  /\ calls' = [calls EXCEPT
                 ![c].pc = "done",
                 ![c].hint = strengthSuggestion(sgExercise, calls[c].work)]
  /\ UNCHANGED <<sgExercise, sgHistory, sgHint, loaded>>
  /\ UNCHANGED <<pageVars, otherPages>>

NextConcurrent ==
  \E c \in Callers :
    \/ CardioReturn(c)
    \/ FilterWork(c)
    \/ StrengthReturn(c)

SpecConcurrent == InitConcurrent /\ [][NextConcurrent]_vars

(***************************************************************************)
(* The Assignments page (pages/Assignments.tsx).  An Assignment is kept    *)
(* by its id and status; the other fields are copied unchanged by every    *)
(* handler.  A call of addAssignment, updateStatus or deleteAssignment is  *)
(* a record of requests: the arguments, the assignments of the render      *)
(* whose handler was called (the closure's value), and its position:       *)
(* "await" while the request is in flight, then "done" or "failed".        *)
(***************************************************************************)
Statuses == {"pending", "in-progress", "completed"}

\* what GET /assignments answers: documents with the _ids 1, 2, ...
StoredAssignment(n, status) == [_id |-> n, status |-> status]

ServerLists ==
  UNION {[1..n -> Statuses] : n \in 0..MaxAssignments}

fetchAssignments(statuses) ==
  [k \in 1..Len(statuses) |-> StoredAssignment(k, statuses[k])]

\* { ...a, id: a._id }
withId(a) == [_id |-> a._id, status |-> a.status, id |-> a._id]

LoggedIn == username # <<>>

\* loadData settles: the fetched list with its ids, or [] when the fetch failed
LoadData ==
  /\ loading
  /\ \E ok \in BOOLEAN, statuses \in ServerLists :
       assignments' =
         IF ok
         THEN [k \in 1..Len(statuses) |->
                 withId(fetchAssignments(statuses)[k])]
         ELSE <<>>
  /\ loading' = FALSE
  /\ UNCHANGED <<username, requests, nextId, waterVars, pageVars, sgVars>>

Request(handler, id, newStatus) ==
  [handler |-> handler, id |-> id, newStatus |-> newStatus,
   assignments |-> assignments, created |-> 0, at |-> "await"]

Call(request) ==
  /\ ~loading
  /\ Len(requests) < MaxRequests
  /\ requests' = Append(requests, request)
  /\ UNCHANGED <<username, assignments, loading, nextId, waterVars, pageVars,
                 sgVars>>

\* addAssignment up to its await; filled: title, course and dueDate are typed
CallAddAssignment ==
  /\ LoggedIn
  /\ \E filled \in BOOLEAN :
       IF filled
       THEN Call(Request("addAssignment", 0, "pending"))
       ELSE ~loading /\ UNCHANGED vars

\* updateStatus up to its await, from the select of a listed assignment
CallUpdateStatus ==
  \E k \in 1..Len(assignments), newStatus \in Statuses :
    Call(Request("updateStatus", assignments[k].id, newStatus))

\* deleteAssignment up to its await, from the button of a listed assignment
CallDeleteAssignment ==
  \E k \in 1..Len(assignments), ok \in BOOLEAN :
    IF ok
    THEN Call(Request("deleteAssignment", assignments[k].id, "pending"))
    ELSE ~loading /\ UNCHANGED vars

\* the setAssignments of each handler, from the list its closure holds
addedTo(list, created) == Append(list, withId(created))

statusUpdated(list, id, newStatus) ==
  [k \in 1..Len(list) |->
     IF list[k].id = id THEN [list[k] EXCEPT !.status = newStatus]
     ELSE list[k]]

RECURSIVE filtered(_, _)
filtered(list, id) ==
  IF list = <<>> THEN <<>>
  ELSE IF list[1].id # id
       THEN <<list[1]>> \o filtered(Tail(list), id)
       ELSE filtered(Tail(list), id)

afterAwait(r, created) ==
  CASE r.handler = "addAssignment" -> addedTo(r.assignments, created)
    [] r.handler = "updateStatus" ->
         statusUpdated(r.assignments, r.id, r.newStatus)
    [] r.handler = "deleteAssignment" -> filtered(r.assignments, r.id)

\* the response of request i arrives: ok, and the handler goes on after its
\* await, or not ok, and its catch block only logs
Respond(i, ok, status) ==
  /\ requests[i].at = "await"
  /\ LET r == requests[i]
         created == StoredAssignment(nextId, status)
         adds == ok /\ r.handler = "addAssignment"
     IN  /\ assignments' = IF ok THEN afterAwait(r, created) ELSE assignments
         /\ requests' =
              [requests EXCEPT
                 ![i].at = IF ok THEN "done" ELSE "failed",
                 ![i].created = IF adds THEN created._id ELSE 0]
         /\ nextId' = IF adds THEN nextId + 1 ELSE nextId
  /\ UNCHANGED <<username, loading, waterVars, pageVars, sgVars>>

Handler(i, handler) ==
  /\ i \in 1..Len(requests)
  /\ requests[i].handler = handler

AddAssignmentSettles ==
  \E i \in 1..MaxRequests, ok \in BOOLEAN, status \in Statuses :
    Handler(i, "addAssignment") /\ Respond(i, ok, status)

UpdateStatusSettles ==
  \E i \in 1..MaxRequests, ok \in BOOLEAN :
    Handler(i, "updateStatus") /\ Respond(i, ok, "pending")

DeleteAssignmentSettles ==
  \E i \in 1..MaxRequests, ok \in BOOLEAN :
    Handler(i, "deleteAssignment") /\ Respond(i, ok, "pending")

InitIdle ==
  /\ InitPage
  /\ workoutDate = 1
  /\ sgExercise = [category |-> "Strength", equipment |-> "Barbell",
                   muscle |-> "Chest"]
  /\ sgHistory = <<>>
  /\ sgHint = NotCalled
  /\ calls = NoCalls
  /\ loaded = NothingLoaded

InitAssignments ==
  /\ InitIdle
  /\ username \in {<<>>, <<"terp">>}
  /\ InitAssignmentsState
  /\ InitWaterState
  /\ waterFetch = "settled"

NextAssignments ==
  \/ LoadData
  \/ CallAddAssignment
  \/ CallUpdateStatus
  \/ CallDeleteAssignment
  \/ AddAssignmentSettles
  \/ UpdateStatusSettles
  \/ DeleteAssignmentSettles

SpecAssignments == InitAssignments /\ [][NextAssignments]_vars

(***************************************************************************)
(* The water-intake tracker (pages/WaterIntake.tsx).  The text of a number *)
(* input is the sequence of its decimal digits, '' being <<>>; a parsed    *)
(* number is <<n>> and NaN is <<>>.  saveWater only posts to the backend,  *)
(* which the page reads once, in the load effect of its first render.      *)
(***************************************************************************)
RECURSIVE DecimalValue(_)
DecimalValue(text) ==
  IF text = <<>> THEN 0
  ELSE 10 * DecimalValue(SubSeq(text, 1, Len(text) - 1)) + text[Len(text)]

\* parseInt(text, 10) of a text of digits
parseInt(text) == IF text = <<>> THEN <<>> ELSE <<DecimalValue(text)>>

\* parseInt(text, 10) || 0
parseIntOr0(text) == IF text = <<>> THEN 0 ELSE DecimalValue(text)

RECURSIVE String(_)
String(n) == IF n < 10 THEN <<n>> ELSE String(n \div 10) \o <<n % 10>>

BottleNames == {"", "Flask"}
OzTexts == {<<>>} \cup {String(n) : n \in 0..MaxBottle}
GoalTexts == {<<>>} \cup {String(n) : n \in 0..MaxGoal}

\* what GET /water answers: the record a saveWater of an earlier visit posted
WaterRecords ==
  [bottleName : BottleNames, bottleOz : 0..MaxBottle, dailyGoal : 0..MaxGoal,
   currentOz : 0..MaxOz]

\* the load effect's fetch settles: res.ok with the saved record, or not
LoadWater ==
  /\ waterFetch = "pending"
  /\ waterFetch' = "settled"
  /\ \E ok \in BOOLEAN, data \in WaterRecords :
       IF ok
       THEN /\ bottleName' = data.bottleName
            /\ bottleOz' = IF data.bottleOz # 0 THEN String(data.bottleOz)
                           ELSE <<>>
            /\ dailyGoal' = IF data.dailyGoal # 0 THEN String(data.dailyGoal)
                            ELSE <<>>
            /\ currentOz' = data.currentOz
            /\ isSetup' = (data.dailyGoal # 0 /\ data.bottleName # "")
       ELSE UNCHANGED <<bottleName, bottleOz, dailyGoal, currentOz, isSetup>>
  /\ UNCHANGED <<username, showConfetti, hasReachedGoal, timers,
                 assignmentsVars, pageVars, sgVars>>

\* the onChange handlers of the setup form, shown while isSetup is false
SetBottleName ==
  /\ ~isSetup
  /\ \E value \in BottleNames : bottleName' = value
  /\ UNCHANGED <<username, isSetup, bottleOz, dailyGoal, currentOz,
                 showConfetti, hasReachedGoal, timers, waterFetch,
                 assignmentsVars, pageVars, sgVars>>

SetBottleOz ==
  /\ ~isSetup
  /\ \E value \in OzTexts : bottleOz' = value
  /\ UNCHANGED <<username, isSetup, bottleName, dailyGoal, currentOz,
                 showConfetti, hasReachedGoal, timers, waterFetch,
                 assignmentsVars, pageVars, sgVars>>

SetDailyGoal ==
  /\ ~isSetup
  /\ \E value \in GoalTexts : dailyGoal' = value
  /\ UNCHANGED <<username, isSetup, bottleName, bottleOz, currentOz,
                 showConfetti, hasReachedGoal, timers, waterFetch,
                 assignmentsVars, pageVars, sgVars>>

HandleSetup ==
  /\ ~isSetup
  /\ LoggedIn
  /\ LET size == parseInt(bottleOz)
         goal == parseInt(dailyGoal)
     IN  isSetup' =
           IF bottleName # "" /\ bottleOz # <<>> /\ dailyGoal # <<>>
           THEN IF size = <<>> \/ goal = <<>> THEN isSetup
                ELSE IF size[1] <= 0 \/ goal[1] <= 0 THEN isSetup
                     ELSE TRUE
           ELSE isSetup
  /\ UNCHANGED <<username, bottleName, bottleOz, dailyGoal, currentOz,
                 showConfetti, hasReachedGoal, timers, waterFetch,
                 assignmentsVars, pageVars, sgVars>>

ResetSetup ==
  /\ isSetup
  /\ isSetup' = FALSE
  /\ UNCHANGED <<username, bottleName, bottleOz, dailyGoal, currentOz,
                 showConfetti, hasReachedGoal, timers, waterFetch,
                 assignmentsVars, pageVars, sgVars>>

AddOz ==
  /\ isSetup
  /\ LoggedIn
  /\ currentOz < MaxOz
  /\ LET newOz == currentOz + 1
         goal == parseIntOr0(dailyGoal)
     IN  /\ currentOz' = newOz
         /\ IF newOz >= goal /\ ~hasReachedGoal
            THEN /\ timers < MaxTimers
                 /\ showConfetti' = TRUE
                 /\ hasReachedGoal' = TRUE
                 /\ timers' = timers + 1
            ELSE UNCHANGED <<showConfetti, hasReachedGoal, timers>>
  /\ UNCHANGED <<username, isSetup, bottleName, bottleOz, dailyGoal,
                 waterFetch, assignmentsVars, pageVars, sgVars>>

RemoveOz ==
  /\ isSetup
  /\ LoggedIn
  /\ currentOz > 0
  /\ LET newOz == currentOz - 1
         goal == parseIntOr0(dailyGoal)
     IN  /\ currentOz' = newOz
         /\ hasReachedGoal' = IF newOz < goal THEN FALSE ELSE hasReachedGoal
  /\ UNCHANGED <<username, isSetup, bottleName, bottleOz, dailyGoal,
                 showConfetti, timers, waterFetch, assignmentsVars, pageVars,
                 sgVars>>

\* a callback of addOz's setTimeout runs: setShowConfetti(false)
ConfettiTimeout ==
  /\ timers > 0
  /\ timers' = timers - 1
  /\ showConfetti' = FALSE
  /\ UNCHANGED <<username, isSetup, bottleName, bottleOz, dailyGoal,
                 currentOz, hasReachedGoal, waterFetch, assignmentsVars,
                 pageVars, sgVars>>

InitWater ==
  /\ InitIdle
  /\ username \in {<<>>, <<"terp">>}
  /\ InitAssignmentsState
  /\ InitWaterState
  /\ waterFetch = IF LoggedIn THEN "pending" ELSE "settled"

NextWater ==
  \/ LoadWater
  \/ SetBottleName
  \/ SetBottleOz
  \/ SetDailyGoal
  \/ HandleSetup
  \/ ResetSetup
  \/ AddOz
  \/ RemoveOz
  \/ ConfettiTimeout

SpecWater == InitWater /\ [][NextWater]_vars

(***************************************************************************)
(* Vocabulary of the claims about getSuggestion, from the specification's  *)
(* words (section 4.1 and the glossary), independent of the model above    *)
(***************************************************************************)
Called == sgHint # NotCalled

\* the 20 advisory messages
Messages == {
  "No history yet -- start easy and build consistency.",
  "Next time: +2-5 minutes or a slight pace/incline increase.",
  "No history yet -- start comfortable and focus on clean form.",
  "Nice weighted set -- consider +2.5-5 lbs next time.",
  "You may be ready to add a bit more weight.",
  "Try adding 1-2 reps before increasing weight again.",
  "Hold this load and tighten technique.",
  "Good assisted range -- try reducing assistance by 5-10 lbs next time.",
  "You can likely reduce assistance a bit.",
  "Stay here and aim for cleaner reps before reducing assistance.",
  "Keep assistance for now and focus on controlled tempo.",
  "Great control -- consider a harder variation or add light weight if available.",
  "Try adding 1-2 reps next time if form stays clean.",
  "Stick here and aim for smoother reps and full range of motion.",
  "Repeat this and focus on strict form and controlled tempo.",
  "Try +5 lbs next time if form was solid.",
  "Solid range -- consider a small increase next time if form was clean.",
  "You may be ready for a small weight increase next time.",
  "Try adding 1 rep per set before increasing weight.",
  "Repeat this weight and aim for tighter technique." }

HasField(s, f) == f \in DOMAIN s
IsWarmupSet(s) == HasField(s, "isWarmup") /\ s.isWarmup
RepsOf(s) == IF HasField(s, "reps") THEN s.reps ELSE 0
WeightOf(s) == IF HasField(s, "weight") THEN s.weight ELSE 0

Strength(ex) == ex.category = "Strength"
Bodyweight(ex) == Strength(ex) /\ ex.equipment = "Bodyweight"
Loaded(ex) == Strength(ex) /\ ex.equipment # "Bodyweight"

\* a qualifying working set of exercise ex
Qualifies(ex, s) ==
  /\ ~IsWarmupSet(s)
  /\ RepsOf(s) > 0
  /\ (Bodyweight(ex) \/ WeightOf(s) > 0)

QualifyingAt(ex, h) == { i \in 1..Len(h) : Qualifies(ex, h[i]) }
HasWorkingSet(ex, h) == QualifyingAt(ex, h) # {}

\* the most recent (last listed) qualifying working set
LastWorkingSet(ex, h) ==
  h[CHOOSE i \in QualifyingAt(ex, h) : \A j \in QualifyingAt(ex, h) : j <= i]

LastReps == RepsOf(LastWorkingSet(sgExercise, sgHistory))
LastLoad == WeightOf(LastWorkingSet(sgExercise, sgHistory))

OnlyWarmups(h) == Len(h) > 0 /\ \A i \in 1..Len(h) : IsWarmupSet(h[i])

(***************************************************************************)
(* C1: after any sequence of finished workouts and session deletions, the  *)
(* history the page passes to getSuggestion for an exercise lists the      *)
(* exercise's sets oldest-to-newest by session, so that the set the        *)
(* suggestion is derived from (the last qualifying working set of the      *)
(* list) is of the most recent session that has one.                       *)
(***************************************************************************)
\* for each set of historySetsByExercise(exerciseId), the instant of its
\* session
HistoryDates(exerciseId) ==
  Flatten([k \in 1..Len(sessions) |->
             [i \in 1..Len(SetsInSession(sessions[k], exerciseId)) |->
                getTime(sessions[k].dateISO)]])

LastWorkingAt(ex, h) ==
  CHOOSE i \in QualifyingAt(ex, h) : \A j \in QualifyingAt(ex, h) : j <= i

C1_OldestToNewest ==
  \A k \in 1..Len(exercises) :
    LET ex == exercises[k]
        h == historySetsByExercise(ex.id)
        d == HistoryDates(ex.id)
    IN /\ \A i, j \in 1..Len(h) : i < j => d[i] <= d[j]
       /\ HasWorkingSet(ex, h) =>
            \A j \in QualifyingAt(ex, h) : d[j] <= d[LastWorkingAt(ex, h)]

(***************************************************************************)
(* C2: getSuggestion is total: for every exercise and every history,       *)
(* sets with absent, zero or negative fields included, the call returns,   *)
(* and what it returns is a non-empty string, one of the 20 advisory       *)
(* messages.                                                               *)
(***************************************************************************)
C2_Total ==
  /\ ~Called => ENABLED CallGetSuggestion
  /\ Called => (sgHint # "" /\ sgHint \in Messages)

\* a call has returned for a history holding a set without warm-up flag and
\* a set with negative reps
C2_Witness ==
  /\ Called
  /\ \E i \in 1..Len(sgHistory) : ~HasField(sgHistory[i], "isWarmup")
  /\ \E i \in 1..Len(sgHistory) :
       HasField(sgHistory[i], "reps") /\ sgHistory[i].reps < 0

(***************************************************************************)
(* C3: for a Cardio exercise the result is the cardio no-history message   *)
(* when the history is empty and the fixed progression message for every   *)
(* non-empty history, whatever the sets, the equipment and the muscle.     *)
(***************************************************************************)
C3_Cardio ==
  (Called /\ sgExercise.category = "Cardio") =>
    sgHint = IF sgHistory = <<>>
             THEN "No history yet -- start easy and build consistency."
             ELSE "Next time: +2-5 minutes or a slight pace/incline increase."

\* a Cardio exercise with Bodyweight equipment and a history of strength
\* sets, none of them a working set
C3_Witness ==
  /\ Called
  /\ sgExercise.category = "Cardio"
  /\ sgExercise.equipment = "Bodyweight"
  /\ Len(sgHistory) = 2
  /\ IsWarmupSet(sgHistory[1])
  /\ RepsOf(sgHistory[2]) = 0
  /\ sgHint = "Next time: +2-5 minutes or a slight pace/incline increase."

(***************************************************************************)
(* C4: for a Strength exercise whose equipment is not Bodyweight, a        *)
(* history without a qualifying working set (the empty history included)   *)
(* gives the strength no-history message.                                  *)
(***************************************************************************)
C4_NoWorkingSet ==
  (Called /\ Loaded(sgExercise)
     /\ \A i \in 1..Len(sgHistory) :
          \/ IsWarmupSet(sgHistory[i])
          \/ RepsOf(sgHistory[i]) = 0
          \/ WeightOf(sgHistory[i]) <= 0)
  => sgHint = "No history yet -- start comfortable and focus on clean form."

\* a loaded exercise, a warm-up with weight and reps and a non-warm-up set
\* with reps but a negative weight
C4_Witness ==
  /\ Called
  /\ Loaded(sgExercise)
  /\ Len(sgHistory) = 2
  /\ IsWarmupSet(sgHistory[1]) /\ WeightOf(sgHistory[1]) > 0
  /\ RepsOf(sgHistory[1]) > 0
  /\ ~IsWarmupSet(sgHistory[2]) /\ WeightOf(sgHistory[2]) < 0
  /\ RepsOf(sgHistory[2]) > 0
  /\ sgHint = "No history yet -- start comfortable and focus on clean form."

(***************************************************************************)
(* C5 as stated: for every exercise, Cardio included, a non-empty history  *)
(* of warm-up sets only gives the same message as the empty history.       *)
(***************************************************************************)
C5_Original ==
  (Called /\ OnlyWarmups(sgHistory)) =>
    sgHint = getSuggestion(sgExercise, <<>>)

(***************************************************************************)
(* C5 as amended: for every Strength exercise, bodyweight or loaded, a     *)
(* non-empty history of warm-up sets only gives the same message as the    *)
(* empty history; for a Cardio exercise it gives the progression message   *)
(* of a non-empty history, which is not the message of the empty history.  *)
(***************************************************************************)
C5_WarmupsOnly ==
  (Called /\ OnlyWarmups(sgHistory)) =>
    IF Strength(sgExercise)
    THEN sgHint = getSuggestion(sgExercise, <<>>)
    ELSE /\ sgHint = "Next time: +2-5 minutes or a slight pace/incline increase."
         /\ sgHint # getSuggestion(sgExercise, <<>>)

\* a bodyweight exercise and two warm-up sets that have reps
C5_Witness ==
  /\ Called
  /\ Bodyweight(sgExercise)
  /\ Len(sgHistory) = 2
  /\ OnlyWarmups(sgHistory)
  /\ \A i \in 1..2 : RepsOf(sgHistory[i]) > 0
  /\ sgHint = "No history yet -- start comfortable and focus on clean form."

(***************************************************************************)
(* C6: for a loaded Strength exercise whose last working set has reps in   *)
(* 8..12, the result is the +5 lbs message exactly when the equipment is   *)
(* not Dumbbell and the muscle is Chest, Shoulders or Arms, and the        *)
(* generic solid-range message otherwise; Barbell/Chest with 135 x 10      *)
(* gives the +5 lbs message.                                               *)
(***************************************************************************)
BenchScenario ==
  /\ sgExercise = [category |-> "Strength", equipment |-> "Barbell",
                   muscle |-> "Chest"]
  /\ sgHistory = << [isWarmup |-> FALSE, weight |-> 135, reps |-> 10] >>

C6_SweetSpot ==
  /\ (Called /\ Loaded(sgExercise) /\ HasWorkingSet(sgExercise, sgHistory)
        /\ LastReps \in 8..12)
     => sgHint =
          IF sgExercise.equipment # "Dumbbell"
             /\ sgExercise.muscle \in {"Chest", "Shoulders", "Arms"}
          THEN "Try +5 lbs next time if form was solid."
          ELSE "Solid range -- consider a small increase next time if form was clean."
  /\ (Called /\ BenchScenario)
     => sgHint = "Try +5 lbs next time if form was solid."

\* a Dumbbell exercise of an upper-body muscle in the sweet spot: the generic
\* message, although a Barbell would get +5 lbs
C6_Witness ==
  /\ Called
  /\ sgExercise.category = "Strength"
  /\ sgExercise.equipment = "Dumbbell"
  /\ sgExercise.muscle = "Shoulders"
  /\ HasWorkingSet(sgExercise, sgHistory)
  /\ LastReps = 12
  /\ sgHint = "Solid range -- consider a small increase next time if form was clean."

(***************************************************************************)
(* C7: for a loaded Strength exercise whose last working set has reps      *)
(* outside 8..12, the message depends on reps alone: above 12 the          *)
(* small-weight-increase message, 5..7 the add-1-rep message, below 5 the  *)
(* repeat-this-weight message; Dumbbell/Arms with 25 x 15 gives the        *)
(* small-weight-increase message.                                          *)
(***************************************************************************)
CurlScenario ==
  /\ sgExercise = [category |-> "Strength", equipment |-> "Dumbbell",
                   muscle |-> "Arms"]
  /\ sgHistory = << [isWarmup |-> FALSE, weight |-> 25, reps |-> 15] >>

C7_OutsideSweetSpot ==
  /\ (Called /\ Loaded(sgExercise) /\ HasWorkingSet(sgExercise, sgHistory)
        /\ LastReps \notin 8..12)
     => sgHint =
          IF LastReps > 12
            THEN "You may be ready for a small weight increase next time."
          ELSE IF LastReps \in 5..7
            THEN "Try adding 1 rep per set before increasing weight."
          ELSE "Repeat this weight and aim for tighter technique."
  /\ (Called /\ CurlScenario)
     => sgHint = "You may be ready for a small weight increase next time."

\* the Dumbbell/Arms scenario of the specification
C7_Witness ==
  /\ Called
  /\ CurlScenario
  /\ sgHint = "You may be ready for a small weight increase next time."

(***************************************************************************)
(* C8: for a bodyweight Strength exercise whose last working set has       *)
(* weight > 0: reps 8..12 the weighted-set message, above 12 the           *)
(* add-more-weight message, 5..7 the add-reps message, below 5 the         *)
(* hold-this-load message; exactly one of the four cases applies.          *)
(***************************************************************************)
C8_AddedWeight ==
  (Called /\ Bodyweight(sgExercise) /\ HasWorkingSet(sgExercise, sgHistory)
     /\ LastLoad > 0)
  => /\ LastReps \in 8..12 =>
          sgHint = "Nice weighted set -- consider +2.5-5 lbs next time."
     /\ LastReps > 12 =>
          sgHint = "You may be ready to add a bit more weight."
     /\ LastReps \in 5..7 =>
          sgHint = "Try adding 1-2 reps before increasing weight again."
     /\ LastReps < 5 =>
          sgHint = "Hold this load and tighten technique."
     /\ Cardinality({ c \in 1..4 :
          \/ c = 1 /\ LastReps \in 8..12
          \/ c = 2 /\ LastReps > 12
          \/ c = 3 /\ LastReps \in 5..7
          \/ c = 4 /\ LastReps < 5 }) = 1

\* a weighted bodyweight set of 8 reps, followed by a set that does not count
C8_Witness ==
  /\ Called
  /\ Bodyweight(sgExercise)
  /\ Len(sgHistory) = 2
  /\ Qualifies(sgExercise, sgHistory[1])
  /\ WeightOf(sgHistory[1]) > 0 /\ RepsOf(sgHistory[1]) = 8
  /\ ~Qualifies(sgExercise, sgHistory[2])
  /\ sgHint = "Nice weighted set -- consider +2.5-5 lbs next time."

(***************************************************************************)
(* C9: for a bodyweight Strength exercise whose last working set has       *)
(* weight < 0: reps 8..12 the reduce-assistance-by-5-10-lbs message, above *)
(* 12 the reduce-a-bit message, 5..7 the stay-here message, below 5 the    *)
(* keep-assistance message; Bodyweight/Back with -20 x 9 gives the         *)
(* reduce-assistance-by-5-10-lbs message.                                  *)
(***************************************************************************)
PullupScenario ==
  /\ sgExercise = [category |-> "Strength", equipment |-> "Bodyweight",
                   muscle |-> "Back"]
  /\ sgHistory = << [isWarmup |-> FALSE, weight |-> -20, reps |-> 9] >>

C9_Assisted ==
  /\ (Called /\ Bodyweight(sgExercise) /\ HasWorkingSet(sgExercise, sgHistory)
        /\ LastLoad < 0)
     => /\ LastReps \in 8..12 =>
             sgHint = "Good assisted range -- try reducing assistance by 5-10 lbs next time."
        /\ LastReps > 12 =>
             sgHint = "You can likely reduce assistance a bit."
        /\ LastReps \in 5..7 =>
             sgHint = "Stay here and aim for cleaner reps before reducing assistance."
        /\ LastReps < 5 =>
             sgHint = "Keep assistance for now and focus on controlled tempo."
  /\ (Called /\ PullupScenario)
     => sgHint = "Good assisted range -- try reducing assistance by 5-10 lbs next time."

\* the assisted pull-up scenario of the specification
C9_Witness ==
  /\ Called
  /\ PullupScenario
  /\ sgHint = "Good assisted range -- try reducing assistance by 5-10 lbs next time."

(***************************************************************************)
(* C10: for a bodyweight Strength exercise whose last working set has      *)
(* weight 0 or no weight: reps >= 12 the harder-variation message, 8..11   *)
(* the add-1-2-reps message, 5..7 the stick-here message, below 5 the      *)
(* repeat-this message; so 12 reps give the harder-variation message and   *)
(* 11 reps the add-1-2-reps message.                                       *)
(***************************************************************************)
C10_Unweighted ==
  (Called /\ Bodyweight(sgExercise) /\ HasWorkingSet(sgExercise, sgHistory)
     /\ LastLoad = 0)
  => /\ LastReps >= 12 =>
          sgHint = "Great control -- consider a harder variation or add light weight if available."
     /\ LastReps \in 8..11 =>
          sgHint = "Try adding 1-2 reps next time if form stays clean."
     /\ LastReps \in 5..7 =>
          sgHint = "Stick here and aim for smoother reps and full range of motion."
     /\ LastReps < 5 =>
          sgHint = "Repeat this and focus on strict form and controlled tempo."

\* 12 reps without a weight field after 11 reps at weight 0: the boundary is
\* on the harder-variation side
C10_Witness ==
  /\ Called
  /\ Bodyweight(sgExercise)
  /\ Len(sgHistory) = 2
  /\ sgHistory[1] = [isWarmup |-> FALSE, weight |-> 0, reps |-> 11]
  /\ sgHistory[2] = [isWarmup |-> FALSE, reps |-> 12]
  /\ sgHint = "Great control -- consider a harder variation or add light weight if available."

(***************************************************************************)
(* C11 as stated: in every Strength branch (loaded, bodyweight with added  *)
(* weight, assisted, unweighted) a last working set of 8 reps and one of   *)
(* 12 reps give the message of a last working set of 10 reps of the same   *)
(* exercise and weight.                                                    *)
(***************************************************************************)
\* the history of one working set of the last working set's weight and of
\* reps reps
SameLoadWithReps(reps) ==
  << [isWarmup |-> FALSE, weight |-> LastLoad, reps |-> reps] >>

C11_Original ==
  (Called /\ Strength(sgExercise) /\ HasWorkingSet(sgExercise, sgHistory)
     /\ LastReps \in {8, 12})
  => sgHint = getSuggestion(sgExercise, SameLoadWithReps(10))

(***************************************************************************)
(* C11 as amended: in the loaded, the added-weight and the assisted branch *)
(* a last working set of 8 reps and one of 12 reps give the message of 10  *)
(* reps; in the unweighted bodyweight branch 8 reps give the message of 10 *)
(* reps, and 12 reps give the harder-variation message of the case         *)
(* reps >= 12, which is not the message of 10 reps.                        *)
(***************************************************************************)
C11_Boundaries ==
  (Called /\ Strength(sgExercise) /\ HasWorkingSet(sgExercise, sgHistory)
     /\ LastReps \in {8, 12})
  => IF Bodyweight(sgExercise) /\ LastLoad = 0 /\ LastReps = 12
     THEN /\ sgHint = "Great control -- consider a harder variation or add light weight if available."
          /\ sgHint = getSuggestion(sgExercise, SameLoadWithReps(13))
          /\ sgHint # getSuggestion(sgExercise, SameLoadWithReps(10))
     ELSE sgHint = getSuggestion(sgExercise, SameLoadWithReps(10))

\* an assisted set of 12 reps after an assisted set of 13 reps
C11_Witness ==
  /\ Called
  /\ Bodyweight(sgExercise)
  /\ Len(sgHistory) = 2
  /\ sgHistory[1] = [isWarmup |-> FALSE, weight |-> -20, reps |-> 13]
  /\ sgHistory[2] = [isWarmup |-> FALSE, weight |-> -20, reps |-> 12]
  /\ sgHint = "Good assisted range -- try reducing assistance by 5-10 lbs next time."

(***************************************************************************)
(* C18: the set that drives a Strength suggestion is a working set of the  *)
(* history: not a warm-up, reps > 0 and, for an exercise that is not       *)
(* bodyweight, weight > 0; for a bodyweight exercise a last set with reps  *)
(* > 0 and a zero, absent or negative weight is the driving set.           *)
(***************************************************************************)
C18_DrivingSet ==
  (Called /\ Strength(sgExercise)) =>
    LET bw == isBodyweightStrength(sgExercise)
        n == Len(sgHistory)
    IN /\ Len(work(bw, sgHistory)) > 0 =>
            LET d == lastWork(bw, sgHistory)
            IN /\ \E i \in 1..n : sgHistory[i] = d
               /\ ~IsWarmupSet(d)
               /\ RepsOf(d) > 0
               /\ Loaded(sgExercise) => WeightOf(d) > 0
               /\ sgHint = getSuggestion(sgExercise, <<d>>)
       /\ (Bodyweight(sgExercise) /\ n > 0 /\ ~IsWarmupSet(sgHistory[n])
             /\ RepsOf(sgHistory[n]) > 0 /\ WeightOf(sgHistory[n]) <= 0)
          => /\ Len(work(bw, sgHistory)) > 0
             /\ lastWork(bw, sgHistory) = sgHistory[n]
             /\ sgHint # "No history yet -- start comfortable and focus on clean form."

\* a loaded exercise: a working set followed by a set of 0 reps, which does
\* not drive the suggestion
C18_Witness ==
  /\ Called
  /\ Loaded(sgExercise)
  /\ Len(sgHistory) = 2
  /\ sgHistory[1] = [isWarmup |-> FALSE, weight |-> 135, reps |-> 13]
  /\ sgHistory[2] = [isWarmup |-> FALSE, weight |-> 135, reps |-> 0]
  /\ sgHint = "You may be ready for a small weight increase next time."

(***************************************************************************)
(* C19: for a Strength exercise the result depends on the history only     *)
(* through the weight and reps of its last qualifying working set: it is   *)
(* the result for the history of that one set (of the empty history when   *)
(* no set qualifies), whatever the earlier sets and whatever warm-up,      *)
(* zero-rep or (loaded) weightless sets are listed, also after it.         *)
(***************************************************************************)
C19_LastWorkingOnly ==
  (Called /\ Strength(sgExercise)) =>
    sgHint =
      IF HasWorkingSet(sgExercise, sgHistory)
      THEN getSuggestion(sgExercise,
             << [isWarmup |-> FALSE, weight |-> LastLoad, reps |-> LastReps] >>)
      ELSE getSuggestion(sgExercise, <<>>)

\* two working sets of different reps ranges: the second one decides
C19_Witness ==
  /\ Called
  /\ Loaded(sgExercise)
  /\ Len(sgHistory) = 2
  /\ Qualifies(sgExercise, sgHistory[1]) /\ RepsOf(sgHistory[1]) = 13
  /\ Qualifies(sgExercise, sgHistory[2]) /\ RepsOf(sgHistory[2]) = 4
  /\ sgHint = "Repeat this weight and aim for tighter technique."

(***************************************************************************)
(* C20: absent fields count as zero or false.  In a Strength history: a    *)
(* set without reps is never a working set; a set without weight is never  *)
(* a working set of a loaded exercise; a set without weight, with reps > 0 *)
(* and no warm-up flag set is a working set of a bodyweight exercise and   *)
(* is handled as weight 0; a set without isWarmup is handled as the same   *)
(* set with isWarmup false.                                                *)
(***************************************************************************)
NoHistoryStrength ==
  "No history yet -- start comfortable and focus on clean form."

C20_AbsentFields ==
  Strength(sgExercise) =>
    LET bw == isBodyweightStrength(sgExercise)
        alone == Called /\ Len(sgHistory) = 1
    IN \A i \in 1..Len(sgHistory) :
         LET s == sgHistory[i]
         IN /\ ~HasField(s, "reps") =>
                 /\ ~isWorkingSet(bw, s)
                 /\ alone => sgHint = NoHistoryStrength
            /\ (~bw /\ ~HasField(s, "weight")) =>
                 /\ ~isWorkingSet(bw, s)
                 /\ alone => sgHint = NoHistoryStrength
            /\ (bw /\ ~HasField(s, "weight") /\ HasField(s, "reps")
                  /\ s.reps > 0 /\ ~IsWarmupSet(s)) =>
                 /\ isWorkingSet(bw, s)
                 /\ alone => sgHint = getSuggestion(sgExercise,
                      << [isWarmup |-> FALSE, weight |-> 0, reps |-> s.reps] >>)
            /\ ~HasField(s, "isWarmup") =>
                 /\ isWorkingSet(bw, s)
                      = isWorkingSet(bw, Patch(s, "isWarmup", FALSE))
                 /\ alone => sgHint = getSuggestion(sgExercise,
                      << Patch(s, "isWarmup", FALSE) >>)

\* a loaded exercise and one set of 135 x 8 without warm-up flag
C20_Witness ==
  /\ Called
  /\ Loaded(sgExercise)
  /\ sgHistory = << [weight |-> 135, reps |-> 8] >>
  /\ sgHint # NoHistoryStrength

(***************************************************************************)
(* C13: getSuggestion leaves everything unchanged: across a call the       *)
(* exercise and the history list (length, order, every set) are as before, *)
(* and so are the sessions, the active workout, the exercises, the         *)
(* overrides and the stored values.                                        *)
(***************************************************************************)
C13_Frame ==
  [][(~Called /\ Called') =>
       /\ sgExercise' = sgExercise
       /\ Len(sgHistory') = Len(sgHistory)
       /\ \A i \in 1..Len(sgHistory) : sgHistory'[i] = sgHistory[i]
       /\ sessions' = sessions
       /\ active' = active
       /\ exercises' = exercises
       /\ overrides' = overrides
       /\ localStorage' = localStorage]_vars

\* a call has returned for a Strength exercise whose history holds a warm-up
\* before a working set, which the filter inside the function drops
C13_Witness ==
  /\ Called
  /\ Strength(sgExercise)
  /\ Len(sgHistory) = 2
  /\ IsWarmupSet(sgHistory[1])
  /\ QualifyingAt(sgExercise, sgHistory) = {2}
  /\ exercises = DEFAULT_EXERCISES
  /\ localStorage[EXERCISES_KEY] # NoItem

(***************************************************************************)
(* C15: what is saved is what is loaded for workout data.  Given that the  *)
(* write succeeded, loadSessions after saveSessions returns the same       *)
(* sessions in the same order, loadActive after saveActive returns the     *)
(* same workout or null, and loadOverrides after saveOverrides returns the *)
(* same overrides.                                                         *)
(***************************************************************************)
C15_RoundTrip ==
  /\ SESSIONS_KEY \in loaded.written \cap loaded.read
       => loaded.sessions = sessions
  /\ ACTIVE_KEY \in loaded.written \cap loaded.read
       => loaded.active = active
  /\ OVERRIDES_KEY \in loaded.written \cap loaded.read
       => loaded.overrides = overrides

\* two sessions with sets, an active workout with sets and two overrides,
\* one of them a deletion, were all written and loaded
C15_Witness ==
  /\ loaded.written = {SESSIONS_KEY, ACTIVE_KEY, OVERRIDES_KEY}
  /\ loaded.read = {SESSIONS_KEY, ACTIVE_KEY, OVERRIDES_KEY}
  /\ Len(sessions) = 2
  /\ \A i \in 1..2 : sessions[i].items # <<>>
  /\ active # <<>>
  /\ active[1].items # <<>>
  /\ Len(overrides) = 2
  /\ \E i \in 1..2 : overrides[i].deleted
  /\ localStorage[SESSIONS_KEY] # NoItem

(***************************************************************************)
(* C16: what is saved is what is loaded for the exercise library.  After   *)
(* any sequence of createCustomExercise, saveEdit and confirmed            *)
(* deleteExercise, loadExercises applied to what the save effects          *)
(* persisted yields the same set of exercises as the in-memory library,    *)
(* with the same id, name, category, muscle, equipment and compound flag   *)
(* for each, list order aside; a deleted default exercise never reappears  *)
(* and an edited default exercise keeps its edits.  Where setItem throws,   *)
(* the save functions swallow the error and persist nothing, and the       *)
(* effect on overrides.length loads the library from the storage left as   *)
(* it was: a created custom exercise is in memory and not in storage, and  *)
(* a deleted default exercise is back in the library.                      *)
(***************************************************************************)
LibraryView(list) ==
  { [id |-> list[k].id, name |-> list[k].name,
     category |-> list[k].category, muscle |-> list[k].muscle,
     equipment |-> list[k].equipment, compound |-> list[k].compound] :
    k \in 1..Len(list) }

DeletedIds ==
  { overrides[k].id : k \in { j \in 1..Len(overrides) : overrides[j].deleted } }

C16_LibraryRoundTrip ==
  /\ LibraryView(loadExercises(localStorage)) = LibraryView(exercises)
  /\ Len(loadExercises(localStorage)) = Len(exercises)
  /\ \A k \in 1..Len(exercises) : exercises[k].id \notin DeletedIds

(***************************************************************************)
(* C14: in every reachable state, the readers of logged sets, which choose *)
(* the fields to read by the category of getExerciseById(item.exerciseId), *)
(* read no set logged with weight and reps through the cardio fields and   *)
(* no set logged with the cardio fields through weight and reps; also      *)
(* after the category of an exercise was edited or the exercise deleted.   *)
(***************************************************************************)
CardioFields == {"durationMin", "distanceMi", "calories", "rpe"}
StrengthFields == {"weight", "reps"}

\* the items of the active workout and of the stored sessions
LoggedItems ==
  LET all == active \o sessions
  IN UNION { { all[k].items[j] : j \in 1..Len(all[k].items) } :
             k \in 1..Len(all) }

\* the readers take the sets of item for cardio sets
ReadAsCardio(item) == isCardio(getExerciseById(item.exerciseId))

C14_CategoryAppropriate ==
  \A item \in LoggedItems :
    \A i \in 1..Len(item.sets) :
      /\ ReadAsCardio(item) => DOMAIN item.sets[i] \cap StrengthFields = {}
      /\ ~ReadAsCardio(item) => DOMAIN item.sets[i] \cap CardioFields = {}

(***************************************************************************)
(* C17: evaluations of getSuggestion over the same exercise and history,   *)
(* interleaved in any order, each return what a single uninterrupted call  *)
(* returns, and no step of any of them changes the shared exercise or      *)
(* history.                                                                *)
(***************************************************************************)
C17_Interleaved ==
  [][/\ sgHistory' = sgHistory
     /\ sgExercise' = sgExercise
     /\ \A c \in Callers :
          calls'[c].pc = "done" =>
            calls'[c].hint = getSuggestion(sgExercise, sgHistory)]_vars

\* one evaluation returned while another had filtered and not yet returned,
\* over a history from which the filter drops a set
C17_Witness ==
  /\ \E c, d \in Callers :
       /\ calls[c].pc = "done"
       /\ calls[d].pc = "filtered"
       /\ Len(calls[d].work) = 1
  /\ Len(sgHistory) = 2

(***************************************************************************)
(* C21: the bodyweight rules apply exactly when the exercise is a Strength *)
(* exercise with equipment Bodyweight.  A Cardio exercise, with Bodyweight *)
(* equipment too, gets one of the two cardio messages; a Strength exercise *)
(* with other equipment gets a loaded-branch message or the no-history     *)
(* message; a bodyweight Strength exercise with a working set gets one of  *)
(* the twelve bodyweight messages.                                         *)
(***************************************************************************)
CardioMessages ==
  { "No history yet -- start easy and build consistency.",
    "Next time: +2-5 minutes or a slight pace/incline increase." }

LoadedMessages ==
  { "Try +5 lbs next time if form was solid.",
    "Solid range -- consider a small increase next time if form was clean.",
    "You may be ready for a small weight increase next time.",
    "Try adding 1 rep per set before increasing weight.",
    "Repeat this weight and aim for tighter technique." }

BodyweightMessages ==
  Messages \ (CardioMessages \cup LoadedMessages \cup {NoHistoryStrength})

C21_BodyweightExactly ==
  Called =>
    /\ sgExercise.category = "Cardio" => sgHint \in CardioMessages
    /\ Loaded(sgExercise) =>
         sgHint \in LoadedMessages \cup {NoHistoryStrength}
    /\ (Bodyweight(sgExercise) /\ HasWorkingSet(sgExercise, sgHistory)) =>
         sgHint \in BodyweightMessages
    /\ (Bodyweight(sgExercise) /\ ~HasWorkingSet(sgExercise, sgHistory)) =>
         sgHint = NoHistoryStrength

\* a call has returned for a Cardio exercise with Bodyweight equipment whose
\* history ends with a set of 10 reps and no weight, a working set under the
\* bodyweight rules
C21_Witness ==
  /\ Called
  /\ sgExercise.category = "Cardio"
  /\ sgExercise.equipment = "Bodyweight"
  /\ Len(sgHistory) = 2
  /\ ~IsWarmupSet(sgHistory[2])
  /\ RepsOf(sgHistory[2]) = 10
  /\ WeightOf(sgHistory[2]) = 0

(***************************************************************************)
(* C23: the increments 2.5 and 10 are indistinguishable in the output.     *)
(* For every history, two loaded Strength exercises of which neither has   *)
(* the increment 5 (one with Dumbbell equipment, the other with other      *)
(* equipment and a muscle outside Chest, Shoulders, Arms) get the same     *)
(* suggestion; so do two that both have the increment 5.                   *)
(***************************************************************************)
\* the increment of a loaded exercise is 5: not Dumbbell, upper-body muscle
IncrementFive(ex) ==
  ex.equipment # "Dumbbell" /\ ex.muscle \in {"Chest", "Shoulders", "Arms"}

C23_IncrementHidden ==
  Called /\ Loaded(sgExercise) =>
    \A other \in SgExercises :
      (Loaded(other) /\ (IncrementFive(other) <=> IncrementFive(sgExercise)))
        => sgHint = getSuggestion(other, sgHistory)

\* a call has returned for a Barbell exercise of the Back (increment 10) whose
\* last working set has 10 reps, the range where the increment 5 has its own
\* message
C23_Witness ==
  /\ Called
  /\ sgExercise.equipment = "Barbell"
  /\ sgExercise.muscle = "Back"
  /\ sgExercise.category = "Strength"
  /\ HasWorkingSet(sgExercise, sgHistory)
  /\ LastReps = 10
  /\ sgHint = "Solid range -- consider a small increase next time if form was clean."

(***************************************************************************)
(* C24: in every state reached by finishing workouts and deleting          *)
(* sessions, the sessions are ordered by date, newest first, so that       *)
(* sessions[0], which Copy Last copies, is a session of the latest date.   *)
(***************************************************************************)
C24_NewestFirst ==
  /\ \A i, j \in 1..Len(sessions) :
       i < j => getTime(sessions[i].dateISO) >= getTime(sessions[j].dateISO)
  /\ sessions # <<>> =>
       \A j \in 1..Len(sessions) :
         getTime(sessions[1].dateISO) >= getTime(sessions[j].dateISO)

\* two sessions are stored, and the one finished last (the greater id) has
\* the older date, so that it is not the first of the list
C24_Witness ==
  /\ Len(sessions) = 2
  /\ sessions[2].id > sessions[1].id
  /\ getTime(sessions[2].dateISO) < getTime(sessions[1].dateISO)

(***************************************************************************)
(* C26: finishWorkout with an active workout appends exactly one session,  *)
(* with the id and date of the active workout and a non-empty name         *)
(* ('Workout' when none was given), and sets the active workout to none.   *)
(* The stored session has no item without sets and no blank set, and       *)
(* every non-blank set, warm-ups included, is kept in its order.  Without  *)
(* an active workout no session is appended.                               *)
(***************************************************************************)
\* a blank set of an exercise of the category of ex
Blank(ex, set) ==
  IF ex.category = "Cardio"
  THEN \A f \in {"durationMin", "distanceMi", "calories", "rpe"} :
         ~HasField(set, f) \/ set[f] <= 0
  ELSE RepsOf(set) <= 0 /\ WeightOf(set) = 0

\* the sets of item that are not blank, in their order
NonBlankSets(item) ==
  LET Logged(set) == ~Blank(getExerciseById(item.exerciseId), set)
  IN SelectSeq(item.sets, Logged)

\* the items of a workout that have a set that is not blank, in their order,
\* each with its sets that are not blank
LoggedPart(workout) ==
  LET HasLogged(item) == NonBlankSets(item) # <<>>
      kept == SelectSeq(workout.items, HasLogged)
  IN [k \in 1..Len(kept) |->
        [exerciseId |-> kept[k].exerciseId, sets |-> NonBlankSets(kept[k])]]

\* list without its element k
Without(list, k) ==
  SubSeq(list, 1, k - 1) \o SubSeq(list, k + 1, Len(list))

\* a name that is empty or made of blanks only
BlankName(name) == name \in {"", "  "}

\* the step of Finish & save: the active workout ends and the History tab
\* opens
FinishStep == IsActive /\ active' = <<>> /\ tab' = "history"

C26_Finish ==
  [][/\ FinishStep =>
          \E k \in 1..Len(sessions') :
            /\ Without(sessions', k) = sessions
            /\ sessions'[k].id = Active.id
            /\ sessions'[k].dateISO = Active.dateISO
            /\ ~BlankName(sessions'[k].name)
            /\ (BlankName(Active.name) /\ BlankName(workoutName))
                 => sessions'[k].name = "Workout"
            /\ sessions'[k].items = LoggedPart(Active)
            /\ \A j \in 1..Len(sessions'[k].items) :
                 /\ sessions'[k].items[j].sets # <<>>
                 /\ \A n \in 1..Len(sessions'[k].items[j].sets) :
                      ~Blank(getExerciseById(sessions'[k].items[j].exerciseId),
                             sessions'[k].items[j].sets[n])
     /\ ~IsActive => Len(sessions') <= Len(sessions)]_vars

\* a workout was finished in which Pull-Ups had a warm-up set with reps and
\* blank sets: the session holds the warm-up set alone
C26_Witness ==
  /\ ~IsActive
  /\ tab = "history"
  /\ sessions # <<>>
  /\ \E j \in 1..Len(sessions[1].items) :
       /\ sessions[1].items[j].exerciseId = "pullup"
       /\ Len(sessions[1].items[j].sets) = 1
       /\ IsWarmupSet(sessions[1].items[j].sets[1])
       /\ RepsOf(sessions[1].items[j].sets[1]) = 10

(***************************************************************************)
(* C27: discardWorkout never loses logged data without consent.  When the  *)
(* active workout has a set with a weight other than zero or positive      *)
(* reps, duration, distance, calories or rpe, the user is asked; when the  *)
(* user declines, the active workout, the tab and the sessions are         *)
(* unchanged.  The active workout is cleared without asking only when      *)
(* nothing has been logged.                                                *)
(***************************************************************************)
\* a set of the workout has something logged
LoggedSomething(workout) ==
  \E k \in 1..Len(workout.items) :
    \E i \in 1..Len(workout.items[k].sets) :
      LET set == workout.items[k].sets[i]
      IN \/ WeightOf(set) # 0
         \/ RepsOf(set) > 0
         \/ \E f \in {"durationMin", "distanceMi", "calories", "rpe"} :
              HasField(set, f) /\ set[f] > 0

\* the step of the Discard button: the active workout ends and the Library
\* tab opens
DiscardStep == IsActive /\ active' = <<>> /\ tab' = "library"

C27_Discard ==
  [][/\ (IsActive /\ LoggedSomething(Active) /\ dialog' = "declined") =>
          /\ active' = active
          /\ tab' = tab
          /\ sessions' = sessions
     /\ (DiscardStep /\ LoggedSomething(Active)) => dialog' = "accepted"
     /\ (DiscardStep /\ dialog' = "none") => ~LoggedSomething(Active)
     /\ (IsActive /\ dialog' # "none") => LoggedSomething(Active)]_vars

\* the user was asked and declined, for a workout that has a cardio set with
\* a duration and no set with weight or reps
C27_Witness ==
  /\ dialog = "declined"
  /\ IsActive
  /\ \A k \in 1..Len(Active.items) :
       \A i \in 1..Len(Active.items[k].sets) :
         /\ WeightOf(Active.items[k].sets[i]) = 0
         /\ RepsOf(Active.items[k].sets[i]) = 0
  /\ \E k \in 1..Len(Active.items) :
       \E i \in 1..Len(Active.items[k].sets) :
         HasField(Active.items[k].sets[i], "durationMin")
           /\ Active.items[k].sets[i].durationMin = 30

(***************************************************************************)
(* C25: in every state reached by startWorkout (with or without Copy       *)
(* Last), addExerciseToActive, addSet, removeSet, deleteExercise and       *)
(* finishWorkout, the active workout has at most one item per exercise id; *)
(* adding an exercise that is in the active workout already leaves the     *)
(* active workout unchanged.                                               *)
(***************************************************************************)
InActive(id) ==
  IsActive /\ \E k \in 1..Len(Active.items) : Active.items[k].exerciseId = id

C25_OneItemPerExercise ==
  [][/\ IsActive' =>
          \A i, j \in 1..Len(active'[1].items) :
            active'[1].items[i].exerciseId = active'[1].items[j].exerciseId
              => i = j
     /\ \A k \in 1..Len(exercises) :
          (InActive(exercises[k].id) /\ addExerciseToActive(exercises[k]))
            => active' = active]_vars

\* the active workout was copied from the last session, which has a
\* Treadmill item, and holds one Treadmill item with the copied set
C25_Witness ==
  /\ IsActive
  /\ Active.name = "Workout (Copy)"
  /\ Len(sessions[1].items) = 1
  /\ sessions[1].items[1].exerciseId = "tread"
  /\ Len(Active.items) = 1
  /\ InActive("tread")
  /\ Active.items[1].sets[1].durationMin = 30
  /\ tab = "active"

(***************************************************************************)
(* C29: in every state reached by startWorkout (with or without Copy       *)
(* Last), addExerciseToActive, finishWorkout and confirmed deleteExercise, *)
(* each item of the active workout refers to an exercise of the library,   *)
(* so that no active item is resolved through the 'Unknown' fallback of    *)
(* getExerciseById.                                                        *)
(***************************************************************************)
InLibrary(id) == \E k \in 1..Len(exercises) : exercises[k].id = id

C29_ActiveItemsInLibrary ==
  IsActive =>
    \A k \in 1..Len(Active.items) :
      /\ InLibrary(Active.items[k].exerciseId)
      /\ getExerciseById(Active.items[k].exerciseId).name # "Unknown"

(***************************************************************************)
(* C22: the suggestion shown for an exercise is never stale.  In every     *)
(* state reached by finishing workouts, deleting sessions and editing      *)
(* exercises, the hint of each library card and of each card of the active *)
(* workout equals getSuggestion applied to the exercise as it is now and   *)
(* to the sets of the sessions stored now; the sets of a deleted session   *)
(* influence no hint.                                                      *)
(***************************************************************************)
RECURSIVE SetsOfItems(_, _)
\* the sets of the items of exercise id, in the order of the items
SetsOfItems(items, id) ==
  IF items = <<>> THEN <<>>
  ELSE (IF Head(items).exerciseId = id THEN Head(items).sets ELSE <<>>)
         \o SetsOfItems(Tail(items), id)

RECURSIVE StoredSets(_, _)
\* the sets of exercise id in the sessions sess, in the order of the list
StoredSets(sess, id) ==
  IF sess = <<>> THEN <<>>
  ELSE SetsOfItems(Head(sess).items, id) \o StoredSets(Tail(sess), id)

C22_NeverStale ==
  /\ \A k \in 1..Len(exercises) :
       libraryHint(exercises[k]) =
         getSuggestion(exercises[k], StoredSets(sessions, exercises[k].id))
  /\ IsActive =>
       \A k \in 1..Len(Active.items) :
         activeHint(Active.items[k]) =
           getSuggestion(getExerciseById(Active.items[k].exerciseId),
                         StoredSets(sessions, Active.items[k].exerciseId))

\* the first session was deleted, the second is stored with a Treadmill set,
\* and Treadmill was edited into a Strength exercise
C22_Witness ==
  /\ Len(sessions) = 1
  /\ sessions[1].id > 1
  /\ StoredSets(sessions, "tread") # <<>>
  /\ getExerciseById("tread").category = "Strength"
  /\ getExerciseById("tread").equipment = "Dumbbell"
  /\ libraryHint(getExerciseById("tread")) = NoHistoryStrength


(***************************************************************************)
(* C28: the mutations of the Assignments page                              *)
(***************************************************************************)
Settled == \A i \in 1..Len(requests) : requests[i].at # "await"

Succeeded == {i \in 1..Len(requests) : requests[i].at = "done"}

\* the assignment a successful request changed
Target(r) == IF r.handler = "addAssignment" THEN r.created ELSE r.id

DifferentAssignments ==
  \A i, j \in Succeeded : i # j => Target(requests[i]) # Target(requests[j])

Listed(id) == {k \in 1..Len(assignments) : assignments[k].id = id}

\* the local list shows the change request r asked for
Reflects(r) ==
  CASE r.handler = "addAssignment" -> Listed(r.created) # {}
    [] r.handler = "updateStatus" ->
         /\ Listed(r.id) # {}
         /\ \A k \in Listed(r.id) : assignments[k].status = r.newStatus
    [] r.handler = "deleteAssignment" -> Listed(r.id) = {}

\* C28: once every request has completed, and the successful ones changed
\* different assignments, the local assignments list reflects the change of
\* each successful request, whatever the order the responses arrived in.
C28_NoLostMutation ==
  (Settled /\ DifferentAssignments)
    => \A i \in Succeeded : Reflects(requests[i])


(***************************************************************************)
(* C30: the goal celebration of the water-intake tracker                   *)
(***************************************************************************)
Goal == parseIntOr0(dailyGoal)

\* a step of addOz: the only handler that adds an ounce without a fetch
AddOzStep == currentOz' = currentOz + 1 /\ waterFetch' = waterFetch

\* addOz set showConfetti and armed the timeout that clears it
CelebrationStarts == timers' = timers + 1

CrossesGoal == currentOz < Goal /\ currentOz' >= Goal

\* C30: a step of addOz starts the goal celebration exactly when it takes
\* currentOz from below the daily goal to at or above it.
C30_CelebratesOnCrossing ==
  [][AddOzStep => (CelebrationStarts <=> CrossesGoal)]_vars

=============================================================================
